---- MODULE Spec2Model ----
(***************************************************************************)
(* The interactive navigation state machine of the crates browser          *)
(* (src/src/app.rs), driven by the host loop of src/src/main.rs, with the  *)
(* data source of src/src/api.rs as a nondeterministic environment; the    *)
(* terminal and the event producer thread of src/src/event.rs around it;   *)
(* and the security heuristics of api::security_check.                     *)
(***************************************************************************)
EXTENDS Integers, Sequences, FiniteSets, TLC

\* ------------------------------------------------------------------ bounds
\* Longest list a list fetch (search, recent, trending) answers with.
MaxList == 2
\* Longest comparison set: a push beyond it is not explored.
MaxCompared == 2
\* Longest text buffer: a character typed beyond it is not explored.
MaxBuf == 1
\* Largest detail scroll offset explored (usize in the program).
MaxScroll == 11
\* Most events waiting in the channel: a send beyond it is not explored.
MaxQueue == 2
\* Longest word over Alphabet handed to levenshtein_distance.
MaxWord == 3

\* ---------------------------------------------------------- program state
VARIABLES
    running,               \* App.running
    current_tab,           \* App.current_tab
    crates,                \* App.crates
    repos,                 \* App.repos
    search_query,          \* App.search_query
    selected_index,        \* App.selected_index
    loading_state,         \* App.loading_state
    show_detail,           \* App.show_detail
    input_mode,            \* App.input_mode
    detail_scroll,         \* App.detail_scroll
    compared_crates,       \* App.compared_crates
    compare_search_query,  \* App.compare_search_query
    compare_input_mode,    \* App.compare_input_mode
    pc,                    \* position of main's loop
    panicked,              \* the process was aborted by a panic
    calls,                 \* the data-source calls of the latest step
    terminal,              \* raw mode, alternate screen, mouse capture
    queue,                 \* the mpsc channel of EventHandler
    pending,               \* the event events.next() returned, until dispatched
    elapsed,               \* last_tick.elapsed() of the producer, in ms
    ppc,                   \* position of the producer thread
    receiver,              \* the Receiver has not been dropped
    now,                   \* chrono::Utc::now(), in seconds since the epoch
    subject,               \* the record handed to security_check
    warnings,              \* what security_check returned for it
    words,                 \* the strings handed to levenshtein_distance
    distance               \* what levenshtein_distance returned for them

vars == <<running, current_tab, crates, repos, search_query, selected_index,
          loading_state, show_detail, input_mode, detail_scroll,
          compared_crates, compare_search_query, compare_input_mode, pc,
          panicked, calls, terminal, queue, pending, elapsed, ppc, receiver,
          now, subject, warnings, words, distance>>

\* what surrounds the App: the terminal and the event producer
hostvars == <<terminal, queue, pending, elapsed, ppc, receiver>>
\* the clock, and one run of security_check and of levenshtein_distance on
\* their own
checkvars == <<now, subject, warnings, words, distance>>

\* enum Tab, in declaration order
TabOrder == <<"Search", "Recent", "Trending", "Compare", "Help">>
Tab == {TabOrder[i] : i \in 1..Len(TabOrder)}

\* enum LoadingState; the message of Error(String) is not kept
LoadingState == {"NotLoading", "Loading", "Loaded", "Error"}

\* ------------------------------------------------------------ data source
\* Option<String>
None == <<>>
Some(v) == <<v>>

\* struct Crate: the fields the state machine and security_check read.
CrateNames == {"a", "b"}
Licenses == {None, Some("MIT")}
Crate == [name : CrateNames, downloads : Nat, created_at : STRING,
          documentation : {None, Some("d")}, repository : {None, Some("r")},
          max_version : STRING, license : Licenses]

\* two records of the registry: one without license and links, one with
CrateA == [name |-> "a", downloads |-> 0, created_at |-> "",
           documentation |-> None, repository |-> None,
           max_version |-> "1.0.0", license |-> None]
CrateB == [name |-> "b", downloads |-> 0, created_at |-> "",
           documentation |-> Some("d"), repository |-> Some("r"),
           max_version |-> "1.0.0", license |-> Some("MIT")]

\* Utc::now() of the run, in seconds since 1970-01-01T00:00:00Z:
\* 2026-11-03T00:00:00Z
Today == 1793664000

\* struct Repository
Repository == [name : {"r"}]

\* All sequences over S of length at most n.
SeqUpTo(S, n) == UNION {[1..k -> S] : k \in 0..n}

Ok(v) == [ok |-> TRUE, val |-> v, panic |-> FALSE]
Err == [ok |-> FALSE, val |-> <<>>, panic |-> FALSE]
\* the unwrap of a missing "items" array in trending_repos
Unwrapped == [ok |-> FALSE, val |-> <<>>, panic |-> TRUE]

\* a call of one of the four functions of api.rs: its name, the argument
\* that is not the limit (none for recent_crates) and what it answered
Call(f, arg, r) == <<f, arg, r>>
Fn(call) == call[1]
Arg(call) == call[2]
Res(call) == call[3]
\* App.trend_period, set by App::new and never changed
trend_period == "weekly"
NoCall == calls' = <<>>
\* exactly one call was made by the latest step: f(arg, ..)
Made(f, arg) == Len(calls) = 1 /\ Fn(calls[1]) = f /\ Arg(calls[1]) = arg

\* Result<Vec<Crate>, _> of search_crates and recent_crates
search_crates_api(universe) == {Ok(l) : l \in SeqUpTo(universe, MaxList)} \cup {Err}
recent_crates_api(universe) == {Ok(l) : l \in SeqUpTo(universe, MaxList)} \cup {Err}
\* Result<Vec<Repository>, _> of trending_repos, or its panic
trending_repos_api == {Ok(l) : l \in SeqUpTo(Repository, MaxList)} \cup {Err, Unwrapped}
\* Result<Crate, _> of get_crate_details: the record the registry answers with
get_crate_details(universe) == {Ok(c) : c \in universe} \cup {Err}

\* ------------------------------------------------- strings and timestamps
\* the i-th character of s, as a string of length one
CharAt(s, i) == SubSeq(s, i, i)

\* char::is_whitespace over the characters the inputs use
Whitespace == {" ", "\t", "\n"}
\* s.trim().is_empty()
trim_is_empty(s) == \A i \in 1..Len(s) : CharAt(s, i) \in Whitespace

UpperCase == "ABCDEFGHIJKLMNOPQRSTUVWXYZ"
LowerCase == "abcdefghijklmnopqrstuvwxyz"
IndexIn(alphabet, c) == CHOOSE i \in 1..Len(alphabet) : CharAt(alphabet, i) = c
IsIn(alphabet, c) == \E i \in 1..Len(alphabet) : CharAt(alphabet, i) = c

\* str::to_lowercase
RECURSIVE to_lowercase(_)
to_lowercase(s) ==
    IF s = "" THEN ""
    ELSE (IF IsIn(UpperCase, CharAt(s, 1))
          THEN CharAt(LowerCase, IndexIn(UpperCase, CharAt(s, 1)))
          ELSE CharAt(s, 1)) \o to_lowercase(SubSeq(s, 2, Len(s)))

\* str::contains, str::starts_with, str::ends_with
contains(s, pat) ==
    \E i \in 0..(Len(s) - Len(pat)) : SubSeq(s, i + 1, i + Len(pat)) = pat
starts_with(s, pat) == Len(pat) <= Len(s) /\ SubSeq(s, 1, Len(pat)) = pat
ends_with(s, pat) ==
    Len(pat) <= Len(s) /\ SubSeq(s, Len(s) - Len(pat) + 1, Len(s)) = pat

Digits == "0123456789"
AllDigits(s) == \A i \in 1..Len(s) : IsIn(Digits, CharAt(s, i))
\* the value of a string of decimal digits
RECURSIVE Number(_)
Number(s) ==
    IF s = "" THEN 0
    ELSE 10 * Number(SubSeq(s, 1, Len(s) - 1))
         + IndexIn(Digits, CharAt(s, Len(s))) - 1

IsLeap(y) == y % 4 = 0 /\ (y % 100 # 0 \/ y % 400 = 0)
DaysInMonth(y, m) ==
    IF m = 2 THEN (IF IsLeap(y) THEN 29 ELSE 28)
    ELSE IF m \in {4, 6, 9, 11} THEN 30 ELSE 31
\* days from 1970-01-01 to the civil date y-m-d
DaysFromCivil(y, m, d) ==
    LET yy == IF m <= 2 THEN y - 1 ELSE y
        era == yy \div 400
        yoe == yy - era * 400
        mp == IF m > 2 THEN m - 3 ELSE m + 9
        doy == (153 * mp + 2) \div 5 + d - 1
        doe == yoe * 365 + yoe \div 4 - yoe \div 100 + doy
    IN era * 146097 + doe - 719468

\* the zone of an RFC 3339 timestamp: "Z" or a numeric offset
ZoneOk(z) ==
    \/ z = "Z"
    \/ /\ Len(z) = 6
       /\ CharAt(z, 1) \in {"+", "-"}
       /\ AllDigits(SubSeq(z, 2, 3))
       /\ CharAt(z, 4) = ":"
       /\ AllDigits(SubSeq(z, 5, 6))
       /\ Number(SubSeq(z, 2, 3)) <= 23
       /\ Number(SubSeq(z, 5, 6)) <= 59
ZoneSeconds(z) ==
    IF z = "Z" THEN 0
    ELSE (IF CharAt(z, 1) = "-" THEN -1 ELSE 1)
         * (Number(SubSeq(z, 2, 3)) * 3600 + Number(SubSeq(z, 5, 6)) * 60)
\* what follows the seconds: an optional fraction, then the zone
RECURSIVE SkipDigits(_)
SkipDigits(s) ==
    IF s # "" /\ IsIn(Digits, CharAt(s, 1)) THEN SkipDigits(SubSeq(s, 2, Len(s)))
    ELSE s
ZoneOf(rest) ==
    IF starts_with(rest, ".") THEN SkipDigits(SubSeq(rest, 2, Len(rest)))
    ELSE rest
FractionOk(rest) ==
    starts_with(rest, ".") => Len(rest) >= 2 /\ IsIn(Digits, CharAt(rest, 2))

\* DateTime::parse_from_rfc3339(s).is_ok()
rfc3339_is_ok(s) ==
    /\ Len(s) >= 20
    /\ AllDigits(SubSeq(s, 1, 4)) /\ CharAt(s, 5) = "-"
    /\ AllDigits(SubSeq(s, 6, 7)) /\ CharAt(s, 8) = "-"
    /\ AllDigits(SubSeq(s, 9, 10)) /\ CharAt(s, 11) = "T"
    /\ AllDigits(SubSeq(s, 12, 13)) /\ CharAt(s, 14) = ":"
    /\ AllDigits(SubSeq(s, 15, 16)) /\ CharAt(s, 17) = ":"
    /\ AllDigits(SubSeq(s, 18, 19))
    /\ Number(SubSeq(s, 6, 7)) \in 1..12
    /\ Number(SubSeq(s, 9, 10)) \in
          1..DaysInMonth(Number(SubSeq(s, 1, 4)), Number(SubSeq(s, 6, 7)))
    /\ Number(SubSeq(s, 12, 13)) <= 23
    /\ Number(SubSeq(s, 15, 16)) <= 59
    /\ Number(SubSeq(s, 18, 19)) <= 59
    /\ FractionOk(SubSeq(s, 20, Len(s)))
    /\ ZoneOk(ZoneOf(SubSeq(s, 20, Len(s))))
\* the instant of a timestamp that parses, in seconds since 1970-01-01T00:00:00Z
rfc3339_seconds(s) ==
    DaysFromCivil(Number(SubSeq(s, 1, 4)), Number(SubSeq(s, 6, 7)),
                  Number(SubSeq(s, 9, 10))) * 86400
    + Number(SubSeq(s, 12, 13)) * 3600
    + Number(SubSeq(s, 15, 16)) * 60
    + Number(SubSeq(s, 18, 19))
    - ZoneSeconds(ZoneOf(SubSeq(s, 20, Len(s))))
\* the timestamp that parses has a fraction of a second that is not zero
RECURSIVE AnyNonZero(_)
AnyNonZero(s) ==
    /\ s # "" /\ IsIn(Digits, CharAt(s, 1))
    /\ CharAt(s, 1) # "0" \/ AnyNonZero(SubSeq(s, 2, Len(s)))
rfc3339_has_fraction(s) ==
    /\ starts_with(SubSeq(s, 20, Len(s)), ".")
    /\ AnyNonZero(SubSeq(s, 21, Len(s)))
\* clock.signed_duration_since(created).num_seconds(), for a clock on a
\* whole second: whole seconds, truncated toward zero
age_seconds(created_at, clock) ==
    LET whole == clock - rfc3339_seconds(created_at)
    IN IF rfc3339_has_fraction(created_at) /\ whole > 0 THEN whole - 1
       ELSE whole
\* Duration::num_days: whole days, truncated toward zero
num_days(seconds) ==
    IF seconds >= 0 THEN seconds \div 86400 ELSE 0 - ((0 - seconds) \div 86400)

\* ------------------------------------------------------- security_check
common_licenses ==
    <<"mit", "apache", "gpl", "lgpl", "bsd", "mpl", "unlicense", "isc",
      "zlib", "wtfpl", "cc0", "boost", "artistic", "mozilla", "zlib/libpng">>
popular_crates ==
    <<"serde", "tokio", "reqwest", "actix", "rocket", "diesel", "clap",
      "futures", "rand", "log", "chrono", "lazy_static", "wasm-bindgen",
      "regex", "hyper", "rayon", "anyhow", "thiserror">>

Min(a, b) == IF a <= b THEN a ELSE b
\* the matrix filled without the substitution term
RECURSIVE FillColumn_NoSubstitution(_, _, _, _, _)
FillColumn_NoSubstitution(s1, s2, j, i, before) ==
    IF i = 0 THEN <<j>>
    ELSE LET above == FillColumn_NoSubstitution(s1, s2, j, i - 1, before)
         IN Append(above, Min(above[i] + 1,
                              Min(before[i + 1] + 1,
                                  IF CharAt(s1, i) = CharAt(s2, j)
                                  THEN before[i] ELSE before[i] + 2)))
\* levenshtein_distance fills its matrix column by column: column j down to
\* row i, from the column before it
RECURSIVE FillColumn(_, _, _, _, _)
FillColumn(s1, s2, j, i, before) ==
    IF i = 0 THEN <<j>>
    ELSE LET above == FillColumn(s1, s2, j, i - 1, before)
             cost == IF CharAt(s1, i) = CharAt(s2, j) THEN 0 ELSE 1
         IN Append(above, Min(above[i] + 1,
                              Min(before[i + 1] + 1, before[i] + cost)))
RECURSIVE Column(_, _, _)
Column(s1, s2, j) ==
    IF j = 0 THEN [i \in 1..(Len(s1) + 1) |-> i - 1]
    ELSE LET before == Column(s1, s2, j - 1)
         IN FillColumn(s1, s2, j, Len(before) - 1, before)
\* levenshtein_distance: the last cell of the matrix
levenshtein_distance(s1, s2) == Column(s1, s2, Len(s2))[Len(s1) + 1]

\* the license check with a blank license treated as a missing one
license_warnings_BlankAsAbsent(license) ==
    IF license = None \/ trim_is_empty(license[1])
    THEN <<"No license specified">>
    ELSE LET license_lower == to_lowercase(license[1])
             is_common == \E i \in 1..Len(common_licenses) :
                              contains(license_lower, common_licenses[i])
         IN (IF ~is_common
             THEN <<"Uncommon license: '" \o license[1]
                    \o "' - verify before use">>
             ELSE <<>>)
            \o (IF contains(license_lower, "gpl")
                   /\ ~contains(license_lower, "lgpl")
                THEN <<"GPL license may require derivative works to be open-sourced">>
                ELSE <<>>)

\* the license check with the copyleft test made on the license as given
license_warnings_CaseSensitive(license) ==
    IF license = None THEN <<"No license specified">>
    ELSE IF trim_is_empty(license[1]) THEN <<"Empty license specified">>
    ELSE LET license_lower == to_lowercase(license[1])
             is_common == \E i \in 1..Len(common_licenses) :
                              contains(license_lower, common_licenses[i])
         IN (IF ~is_common
             THEN <<"Uncommon license: '" \o license[1]
                    \o "' - verify before use">>
             ELSE <<>>)
            \o (IF contains(license[1], "gpl") /\ ~contains(license[1], "lgpl")
                THEN <<"GPL license may require derivative works to be open-sourced">>
                ELSE <<>>)

\* the license check quoting the lower-cased license in its warning
license_warnings_QuotesLower(license) ==
    IF license = None THEN <<"No license specified">>
    ELSE IF trim_is_empty(license[1]) THEN <<"Empty license specified">>
    ELSE LET license_lower == to_lowercase(license[1])
             is_common == \E i \in 1..Len(common_licenses) :
                              contains(license_lower, common_licenses[i])
         IN (IF ~is_common
             THEN <<"Uncommon license: '" \o license_lower
                    \o "' - verify before use">>
             ELSE <<>>)
            \o (IF contains(license_lower, "gpl")
                   /\ ~contains(license_lower, "lgpl")
                THEN <<"GPL license may require derivative works to be open-sourced">>
                ELSE <<>>)

\* the license check
license_warnings(license) ==
    IF license = None THEN <<"No license specified">>
    ELSE IF trim_is_empty(license[1]) THEN <<"Empty license specified">>
    ELSE LET license_lower == to_lowercase(license[1])
             is_common == \E i \in 1..Len(common_licenses) :
                              contains(license_lower, common_licenses[i])
         IN (IF ~is_common
             THEN <<"Uncommon license: '" \o license[1]
                    \o "' - verify before use">>
             ELSE <<>>)
            \o (IF contains(license_lower, "gpl")
                   /\ ~contains(license_lower, "lgpl")
                THEN <<"GPL license may require derivative works to be open-sourced">>
                ELSE <<>>)

\* the growth check with 10,000 downloads counted as unusually many
growth_warnings_AtLeast(created_at, downloads, clock) ==
    IF /\ rfc3339_is_ok(created_at)
       /\ num_days(age_seconds(created_at, clock)) < 30
       /\ downloads >= 10000
    THEN <<"New crate with unusually high download count">>
    ELSE <<>>

\* the check for suspicious download patterns, at the instant clock
growth_warnings(created_at, downloads, clock) ==
    IF /\ rfc3339_is_ok(created_at)
       /\ num_days(age_seconds(created_at, clock)) < 30
       /\ downloads > 10000
    THEN <<"New crate with unusually high download count">>
    ELSE <<>>

Abs(n) == IF n >= 0 THEN n ELSE 0 - n
\* the typosquatting loop without its breaks: it goes on after a match
RECURSIVE typosquatting_from_NoBreak(_, _)
typosquatting_from_NoBreak(name, k) ==
    IF k > Len(popular_crates) THEN <<>>
    ELSE LET target == popular_crates[k] IN
         IF name = target THEN typosquatting_from_NoBreak(name, k + 1)
         ELSE IF /\ starts_with(name, target) \/ ends_with(name, target)
                 /\ Len(name) > Len(target)
                 /\ Len(name) <= Len(target) + 3
              THEN <<"Name suspiciously similar to '" \o target \o "'">>
                   \o typosquatting_from_NoBreak(name, k + 1)
         ELSE IF /\ Abs(Len(name) - Len(target)) <= 2
                 /\ levenshtein_distance(name, target) <= 2
              THEN <<"Name similar to popular crate '" \o target \o "'">>
                   \o typosquatting_from_NoBreak(name, k + 1)
         ELSE typosquatting_from_NoBreak(name, k + 1)

\* the typosquatting loop without the test that skips the name itself
RECURSIVE typosquatting_from_NoSkip(_, _)
typosquatting_from_NoSkip(name, k) ==
    IF k > Len(popular_crates) THEN <<>>
    ELSE LET target == popular_crates[k] IN
         IF /\ starts_with(name, target) \/ ends_with(name, target)
            /\ Len(name) > Len(target)
            /\ Len(name) <= Len(target) + 3
         THEN <<"Name suspiciously similar to '" \o target \o "'">>
         ELSE IF /\ Abs(Len(name) - Len(target)) <= 2
                 /\ levenshtein_distance(name, target) <= 2
              THEN <<"Name similar to popular crate '" \o target \o "'">>
         ELSE typosquatting_from_NoSkip(name, k + 1)

\* the typosquatting loop from the k-th popular crate on
RECURSIVE typosquatting_from(_, _)
typosquatting_from(name, k) ==
    IF k > Len(popular_crates) THEN <<>>
    ELSE LET target == popular_crates[k] IN
         IF name = target THEN typosquatting_from(name, k + 1)
         ELSE IF /\ starts_with(name, target) \/ ends_with(name, target)
                 /\ Len(name) > Len(target)
                 /\ Len(name) <= Len(target) + 3
              THEN <<"Name suspiciously similar to '" \o target \o "'">>
         ELSE IF /\ Abs(Len(name) - Len(target)) <= 2
                 /\ levenshtein_distance(name, target) <= 2
              THEN <<"Name similar to popular crate '" \o target \o "'">>
         ELSE typosquatting_from(name, k + 1)

\* a link check that takes only an absent link as missing
link_warnings_AbsentOnly(link, warning) ==
    IF link = None THEN <<warning>> ELSE <<>>

\* the repository, documentation and version checks
link_warnings(link, warning) ==
    IF link = None \/ trim_is_empty(link[1]) THEN <<warning>> ELSE <<>>
version_warnings(max_version) ==
    IF starts_with(max_version, "0.0.") \/ max_version = "0.0.1"
    THEN <<"Very early version - may not be stable">>
    ELSE <<>>

\* security_check with the documentation link checked before the
\* repository link
security_check_DocumentationFirst(crate_data) ==
    license_warnings(crate_data.license)
    \o growth_warnings(crate_data.created_at, crate_data.downloads, now)
    \o typosquatting_from(crate_data.name, 1)
    \o link_warnings(crate_data.documentation, "No documentation link")
    \o link_warnings(crate_data.repository, "No repository link")
    \o version_warnings(crate_data.max_version)

\* security_check: the warnings in the order the checks push them, with
\* Utc::now() read from the clock
security_check(crate_data) ==
    license_warnings(crate_data.license)
    \o growth_warnings(crate_data.created_at, crate_data.downloads, now)
    \o typosquatting_from(crate_data.name, 1)
    \o link_warnings(crate_data.repository, "No repository link")
    \o link_warnings(crate_data.documentation, "No documentation link")
    \o version_warnings(crate_data.max_version)

\* a ComparedCrate whose safe flag is set whatever the warnings are
ComparedCrate_AlwaysSafe(details) ==
    [details |-> details,
     security |-> [warnings |-> security_check(details), safe |-> TRUE],
     selected |-> FALSE]

\* ComparedCrate { details, security: SecurityInfo { warnings, safe }, selected }
ComparedCrate(details) ==
    LET security_warnings == security_check(details)
    IN [details |-> details,
        security |-> [warnings |-> security_warnings,
                      safe |-> security_warnings = <<>>],
        selected |-> FALSE]

\* ---------------------------------------------------------------- events
\* crossterm KeyEvent: the code, the character of KeyCode::Char, the CONTROL modifier
Key(code) == [code |-> code, ch |-> "", ctrl |-> FALSE]
Char(c) == [code |-> "Char", ch |-> c, ctrl |-> FALSE]
Ctrl(c) == [code |-> "Char", ch |-> c, ctrl |-> TRUE]

\* the key codes and characters app.rs matches on, and one it does not ("Home")
KeyCodes == {"Tab", "BackTab", "Down", "Up", "Enter", "Esc", "Backspace",
             "PageDown", "PageUp", "Home"}
Chars == {"q", "c", "j", "k", "1", "2", "3", "4", "5", "/", "a", "d"}
KeyEvents == {Key(c) : c \in KeyCodes} \cup {Char(c) : c \in Chars} \cup {Ctrl("c")}

IsChar(key, c) == key.code = "Char" /\ key.ch = c

\* ------------------------------------------------------------ usize, Vec
\* a subtraction that does not stop at 0
saturating_sub_Plain(x, n) == x - n

\* usize::saturating_sub
saturating_sub(x, n) == IF x >= n THEN x - n ELSE 0
\* usize::saturating_add, below the bound MaxScroll (a guard of KeyPress)
saturating_add(x, n) == x + n

\* Vec::remove(i), i counted from 0 and in range
Remove(v, i) == [k \in 1..(Len(v) - 1) |-> IF k <= i THEN v[k] ELSE v[k + 1]]
\* String::pop
Pop(s) == IF s = "" THEN s ELSE SubSeq(s, 1, Len(s) - 1)

\* ------------------------------------------------------------ App methods
\* Each method constrains the primed variables named in its comment; the
\* caller leaves the others unchanged.

\* crates', loading_state', calls'
load_recent_crates(E) ==
    \E r \in E.recent :
       /\ calls' = <<Call("recent_crates", "", r)>>
       /\ IF r.ok
          THEN crates' = r.val /\ loading_state' = "Loaded"
          ELSE crates' = crates /\ loading_state' = "Error"

\* repos', loading_state', panicked', calls'
load_trending_repos(E) ==
    \E r \in E.trending :
       /\ calls' = <<Call("trending_repos", trend_period, r)>>
       /\ IF r.panic
          THEN repos' = repos /\ loading_state' = "Loading" /\ panicked' = TRUE
          ELSE /\ panicked' = panicked
               /\ IF r.ok
                  THEN repos' = r.val /\ loading_state' = "Loaded"
                  ELSE repos' = repos /\ loading_state' = "Error"

\* search_crates with a failed search that empties the list
search_crates_ClearsOnError(E) ==
    IF search_query = ""
    THEN UNCHANGED <<crates, loading_state>> /\ NoCall
    ELSE \E r \in E.search :
            /\ calls' = <<Call("search_crates", search_query, r)>>
            /\ IF r.ok
               THEN crates' = r.val /\ loading_state' = "Loaded"
               ELSE crates' = <<>> /\ loading_state' = "Error"

\* crates', loading_state', calls'
search_crates(E) ==
    IF search_query = ""
    THEN UNCHANGED <<crates, loading_state>> /\ NoCall
    ELSE \E r \in E.search :
            /\ calls' = <<Call("search_crates", search_query, r)>>
            /\ IF r.ok
               THEN crates' = r.val /\ loading_state' = "Loaded"
               ELSE crates' = crates /\ loading_state' = "Error"

\* crates', loading_state', calls'
search_crates_silently(query, E) ==
    \E r \in E.search :
       /\ calls' = <<Call("search_crates", query, r)>>
       /\ IF r.ok
          THEN crates' = r.val /\ loading_state' = "Loaded"
          ELSE crates' = crates /\ loading_state' = "Error"

InComparison(name) ==
    \E i \in 1..Len(compared_crates) : compared_crates[i].details.name = name

\* add_to_comparison that pushes nothing when the details cannot be fetched
add_to_comparison_DropsOnError(E) ==
    IF /\ current_tab \in {"Recent", "Search"}
       /\ crates # <<>>
       /\ selected_index < Len(crates)
    THEN LET current_crate == crates[selected_index + 1] IN
         IF InComparison(current_crate.name)
         THEN UNCHANGED compared_crates /\ NoCall
         ELSE \E r \in E.details :
                 /\ calls' = <<Call("get_crate_details", current_crate.name, r)>>
                 /\ IF r.ok
                    THEN compared_crates' = Append(compared_crates, ComparedCrate(r.val))
                    ELSE UNCHANGED compared_crates
    ELSE UNCHANGED compared_crates /\ NoCall

\* compared_crates', calls'
add_to_comparison(E) ==
    IF /\ current_tab \in {"Recent", "Search"}
       /\ crates # <<>>
       /\ selected_index < Len(crates)
    THEN LET current_crate == crates[selected_index + 1] IN
         IF InComparison(current_crate.name)
         THEN UNCHANGED compared_crates /\ NoCall
         ELSE \E r \in E.details :
                 /\ calls' = <<Call("get_crate_details", current_crate.name, r)>>
                 /\ IF r.ok
                    THEN compared_crates' = Append(compared_crates, ComparedCrate(r.val))
                    ELSE compared_crates' = Append(compared_crates, ComparedCrate(current_crate))
    ELSE UNCHANGED compared_crates /\ NoCall

\* compared_crates', selected_index', panicked'
remove_from_comparison ==
    IF current_tab = "Compare" /\ compared_crates # <<>>
    THEN IF selected_index >= Len(compared_crates)
         THEN \* Vec::remove panics: removal index out of bounds
              /\ panicked' = TRUE
              /\ UNCHANGED <<compared_crates, selected_index>>
         ELSE /\ panicked' = panicked
              /\ compared_crates' = Remove(compared_crates, selected_index)
              /\ selected_index' =
                    IF /\ selected_index >= Len(compared_crates')
                       /\ compared_crates' # <<>>
                    THEN Len(compared_crates') - 1
                    ELSE selected_index
    ELSE UNCHANGED <<compared_crates, selected_index, panicked>>

\* add_crate_to_comparison_by_name without the test of the name
add_crate_to_comparison_by_name_NoTest(name, E) ==
    \E r \in E.details :
       /\ calls' = <<Call("get_crate_details", name, r)>>
       /\ IF r.ok
          THEN compared_crates' = Append(compared_crates, ComparedCrate(r.val))
          ELSE UNCHANGED compared_crates

\* compared_crates', calls'
add_crate_to_comparison_by_name(name, E) ==
    \E r \in E.details :
       /\ calls' = <<Call("get_crate_details", name, r)>>
       /\ IF r.ok
          THEN IF InComparison(r.val.name)
               THEN UNCHANGED compared_crates
               ELSE compared_crates' = Append(compared_crates, ComparedCrate(r.val))
          ELSE UNCHANGED compared_crates

\* next_tab with the Compare arm leading back to Search
NextTabOf_SkipsHelp(t) ==
    CASE t = "Search" -> "Recent"
      [] t = "Recent" -> "Trending"
      [] t = "Trending" -> "Compare"
      [] t = "Compare" -> "Search"
      [] t = "Help" -> "Search"

\* the `match self.current_tab` of next_tab
NextTabOf(t) ==
    CASE t = "Search" -> "Recent"
      [] t = "Recent" -> "Trending"
      [] t = "Trending" -> "Compare"
      [] t = "Compare" -> "Help"
      [] t = "Help" -> "Search"

\* the `match self.current_tab` of prev_tab
PrevTabOf(t) ==
    CASE t = "Search" -> "Help"
      [] t = "Recent" -> "Search"
      [] t = "Trending" -> "Recent"
      [] t = "Compare" -> "Trending"
      [] t = "Help" -> "Compare"

\* the tail shared by next_tab and prev_tab: "just set loading state but
\* don't actually load"; loading_state'
MarkLoading ==
    loading_state' =
        IF \/ current_tab' = "Recent" /\ crates = <<>>
           \/ current_tab' = "Trending" /\ repos = <<>>
        THEN "Loading"
        ELSE loading_state

\* current_tab', selected_index', show_detail', loading_state'
next_tab ==
    /\ current_tab' = NextTabOf(current_tab)
    /\ selected_index' = 0
    /\ show_detail' = FALSE
    /\ MarkLoading

\* current_tab', selected_index', show_detail', loading_state'
prev_tab ==
    /\ current_tab' = PrevTabOf(current_tab)
    /\ selected_index' = 0
    /\ show_detail' = FALSE
    /\ MarkLoading

\* `max` of next_item and prev_item
MaxOf(t) ==
    CASE t \in {"Recent", "Search"} -> Len(crates)
      [] t = "Trending" -> Len(repos)
      [] t = "Compare" -> Len(compared_crates)
      [] t = "Help" -> 0

\* selected_index'
next_item ==
    selected_index' =
        IF MaxOf(current_tab) > 0
        THEN (selected_index + 1) % MaxOf(current_tab)
        ELSE selected_index

\* selected_index'
prev_item ==
    selected_index' =
        IF MaxOf(current_tab) > 0
        THEN IF selected_index > 0 THEN selected_index - 1 ELSE MaxOf(current_tab) - 1
        ELSE selected_index

\* ------------------------------------------------------------ key handlers
\* handle_detail_mode: all of App but running
handle_detail_mode(key) ==
    /\ show_detail' =
          IF key.code = "Esc" \/ IsChar(key, "q") THEN FALSE ELSE show_detail
    /\ detail_scroll' =
          CASE key.code = "Down" \/ IsChar(key, "j") -> saturating_add(detail_scroll, 1)
            [] key.code = "Up" \/ IsChar(key, "k") -> saturating_sub(detail_scroll, 1)
            [] key.code = "PageDown" -> saturating_add(detail_scroll, 10)
            [] key.code = "PageUp" -> saturating_sub(detail_scroll, 10)
            [] OTHER -> detail_scroll
    /\ NoCall
    /\ UNCHANGED <<current_tab, crates, repos, search_query, selected_index,
                   loading_state, input_mode, compared_crates,
                   compare_search_query, compare_input_mode, panicked>>

\* handle_input_mode with a Tab arm that moves to the next tab
handle_input_mode_TabSwitches(key, E) ==
    /\ CASE key.code = "Enter" ->
              /\ input_mode' = FALSE
              /\ search_query' = search_query
              /\ current_tab' = current_tab
              /\ IF search_query # ""
                 THEN search_crates(E) /\ selected_index' = 0
                 ELSE UNCHANGED <<crates, loading_state, selected_index>> /\ NoCall
         [] key.code = "Esc" ->
              /\ input_mode' = FALSE
              /\ NoCall
              /\ UNCHANGED <<search_query, crates, loading_state, selected_index,
                             current_tab>>
         [] key.code = "Char" ->
              /\ search_query' = Append(search_query, key.ch)
              /\ NoCall
              /\ UNCHANGED <<input_mode, crates, loading_state, selected_index,
                             current_tab>>
         [] key.code = "Backspace" ->
              /\ search_query' = Pop(search_query)
              /\ NoCall
              /\ UNCHANGED <<input_mode, crates, loading_state, selected_index,
                             current_tab>>
         [] key.code = "Tab" ->
              /\ current_tab' = NextTabOf(current_tab)
              /\ NoCall
              /\ UNCHANGED <<input_mode, search_query, crates, loading_state,
                             selected_index>>
         [] OTHER ->
              /\ NoCall
              /\ UNCHANGED <<input_mode, search_query, crates, loading_state,
                             selected_index, current_tab>>
    /\ UNCHANGED <<repos, show_detail, detail_scroll,
                   compared_crates, compare_search_query, compare_input_mode,
                   panicked>>

\* handle_input_mode with a Backspace that leaves the mode on an empty buffer
handle_input_mode_BackspaceLeaves(key, E) ==
    /\ CASE key.code = "Enter" ->
              /\ input_mode' = FALSE
              /\ search_query' = search_query
              /\ IF search_query # ""
                 THEN search_crates(E) /\ selected_index' = 0
                 ELSE UNCHANGED <<crates, loading_state, selected_index>> /\ NoCall
         [] key.code = "Esc" ->
              /\ input_mode' = FALSE
              /\ NoCall
              /\ UNCHANGED <<search_query, crates, loading_state, selected_index>>
         [] key.code = "Char" ->
              /\ search_query' = Append(search_query, key.ch)
              /\ NoCall
              /\ UNCHANGED <<input_mode, crates, loading_state, selected_index>>
         [] key.code = "Backspace" ->
              /\ search_query' = Pop(search_query)
              /\ input_mode' = (search_query # "")
              /\ NoCall
              /\ UNCHANGED <<crates, loading_state, selected_index>>
         [] OTHER ->
              /\ NoCall
              /\ UNCHANGED <<input_mode, search_query, crates, loading_state,
                             selected_index>>
    /\ UNCHANGED <<current_tab, repos, show_detail, detail_scroll,
                   compared_crates, compare_search_query, compare_input_mode,
                   panicked>>

\* handle_input_mode: all of App but running
handle_input_mode(key, E) ==
    /\ CASE key.code = "Enter" ->
              /\ input_mode' = FALSE
              /\ search_query' = search_query
              /\ IF search_query # ""
                 THEN search_crates(E) /\ selected_index' = 0
                 ELSE UNCHANGED <<crates, loading_state, selected_index>> /\ NoCall
         [] key.code = "Esc" ->
              /\ input_mode' = FALSE
              /\ NoCall
              /\ UNCHANGED <<search_query, crates, loading_state, selected_index>>
         [] key.code = "Char" ->
              /\ search_query' = Append(search_query, key.ch)
              /\ NoCall
              /\ UNCHANGED <<input_mode, crates, loading_state, selected_index>>
         [] key.code = "Backspace" ->
              /\ search_query' = Pop(search_query)
              /\ NoCall
              /\ UNCHANGED <<input_mode, crates, loading_state, selected_index>>
         [] OTHER ->
              /\ NoCall
              /\ UNCHANGED <<input_mode, search_query, crates, loading_state,
                             selected_index>>
    /\ UNCHANGED <<current_tab, repos, show_detail, detail_scroll,
                   compared_crates, compare_search_query, compare_input_mode,
                   panicked>>

\* the compare-input block with an Escape that commits the buffer as Enter does
handle_compare_input_mode_EscCommits(key, E) ==
    /\ CASE key.code \in {"Enter", "Esc"} ->
              /\ compare_input_mode' = FALSE
              /\ IF compare_search_query # ""
                 THEN /\ add_crate_to_comparison_by_name(compare_search_query, E)
                      /\ compare_search_query' = ""
                 ELSE UNCHANGED <<compared_crates, compare_search_query>> /\ NoCall
         [] key.code = "Char" ->
              /\ compare_search_query' = Append(compare_search_query, key.ch)
              /\ NoCall
              /\ UNCHANGED <<compare_input_mode, compared_crates>>
         [] key.code = "Backspace" ->
              /\ compare_search_query' = Pop(compare_search_query)
              /\ NoCall
              /\ UNCHANGED <<compare_input_mode, compared_crates>>
         [] OTHER ->
              /\ NoCall
              /\ UNCHANGED <<compare_input_mode, compared_crates,
                             compare_search_query>>
    /\ UNCHANGED <<current_tab, crates, repos, search_query, selected_index,
                   loading_state, show_detail, input_mode, detail_scroll,
                   panicked>>

\* the `if self.compare_input_mode` block of handle_key_event: all of App but running
handle_compare_input_mode(key, E) ==
    /\ CASE key.code = "Enter" ->
              /\ compare_input_mode' = FALSE
              /\ IF compare_search_query # ""
                 THEN /\ add_crate_to_comparison_by_name(compare_search_query, E)
                      /\ compare_search_query' = ""
                 ELSE UNCHANGED <<compared_crates, compare_search_query>> /\ NoCall
         [] key.code = "Esc" ->
              /\ compare_input_mode' = FALSE
              /\ NoCall
              /\ UNCHANGED <<compared_crates, compare_search_query>>
         [] key.code = "Char" ->
              /\ compare_search_query' = Append(compare_search_query, key.ch)
              /\ NoCall
              /\ UNCHANGED <<compare_input_mode, compared_crates>>
         [] key.code = "Backspace" ->
              /\ compare_search_query' = Pop(compare_search_query)
              /\ NoCall
              /\ UNCHANGED <<compare_input_mode, compared_crates>>
         [] OTHER ->
              /\ NoCall
              /\ UNCHANGED <<compare_input_mode, compared_crates,
                             compare_search_query>>
    /\ UNCHANGED <<current_tab, crates, repos, search_query, selected_index,
                   loading_state, show_detail, input_mode, detail_scroll,
                   panicked>>

\* the final `match key.code` of handle_key_event: all of App but running
handle_normal_mode(key, E) ==
    CASE key.code = "Tab" ->
           /\ next_tab
           /\ NoCall
           /\ UNCHANGED <<crates, repos, search_query, input_mode, detail_scroll,
                          compared_crates, compare_search_query,
                          compare_input_mode, panicked>>
      [] key.code = "BackTab" ->
           /\ prev_tab
           /\ NoCall
           /\ UNCHANGED <<crates, repos, search_query, input_mode, detail_scroll,
                          compared_crates, compare_search_query,
                          compare_input_mode, panicked>>
      [] key.code = "Down" \/ IsChar(key, "j") ->
           /\ next_item
           /\ NoCall
           /\ UNCHANGED <<current_tab, crates, repos, search_query, loading_state,
                          show_detail, input_mode, detail_scroll, compared_crates,
                          compare_search_query, compare_input_mode, panicked>>
      [] key.code = "Up" \/ IsChar(key, "k") ->
           /\ prev_item
           /\ NoCall
           /\ UNCHANGED <<current_tab, crates, repos, search_query, loading_state,
                          show_detail, input_mode, detail_scroll, compared_crates,
                          compare_search_query, compare_input_mode, panicked>>
      [] key.code = "Enter" ->
           /\ show_detail' = TRUE
           /\ detail_scroll' = 0
           /\ NoCall
           /\ UNCHANGED <<current_tab, crates, repos, search_query, selected_index,
                          loading_state, input_mode, compared_crates,
                          compare_search_query, compare_input_mode, panicked>>
      [] IsChar(key, "1") ->
           /\ current_tab' = "Search"
           /\ NoCall
           /\ UNCHANGED <<crates, repos, search_query, selected_index,
                          loading_state, show_detail, input_mode, detail_scroll,
                          compared_crates, compare_search_query,
                          compare_input_mode, panicked>>
      [] IsChar(key, "2") ->
           /\ current_tab' = "Recent"
           /\ load_recent_crates(E)
           /\ UNCHANGED <<repos, search_query, selected_index, show_detail,
                          input_mode, detail_scroll, compared_crates,
                          compare_search_query, compare_input_mode, panicked>>
      [] IsChar(key, "3") ->
           /\ current_tab' = "Trending"
           /\ load_trending_repos(E)
           /\ UNCHANGED <<crates, search_query, selected_index, show_detail,
                          input_mode, detail_scroll, compared_crates,
                          compare_search_query, compare_input_mode>>
      [] IsChar(key, "4") ->
           /\ current_tab' = "Help"
           /\ NoCall
           /\ UNCHANGED <<crates, repos, search_query, selected_index,
                          loading_state, show_detail, input_mode, detail_scroll,
                          compared_crates, compare_search_query,
                          compare_input_mode, panicked>>
      [] IsChar(key, "5") ->
           /\ current_tab' = "Compare"
           /\ NoCall
           /\ UNCHANGED <<crates, repos, search_query, selected_index,
                          loading_state, show_detail, input_mode, detail_scroll,
                          compared_crates, compare_search_query,
                          compare_input_mode, panicked>>
      [] IsChar(key, "/") ->
           /\ IF current_tab = "Search"
              THEN input_mode' = TRUE /\ search_query' = ""
              ELSE UNCHANGED <<input_mode, search_query>>
           /\ NoCall
           /\ UNCHANGED <<current_tab, crates, repos, selected_index,
                          loading_state, show_detail, detail_scroll,
                          compared_crates, compare_search_query,
                          compare_input_mode, panicked>>
      [] IsChar(key, "a") ->
           /\ IF current_tab \in {"Search", "Recent"}
              THEN add_to_comparison(E) /\ UNCHANGED compare_input_mode
              ELSE IF current_tab = "Compare"
                   THEN /\ compare_input_mode' = TRUE
                        /\ UNCHANGED compared_crates /\ NoCall
                   ELSE UNCHANGED <<compared_crates, compare_input_mode>> /\ NoCall
           /\ UNCHANGED <<current_tab, crates, repos, search_query,
                          selected_index, loading_state, show_detail, input_mode,
                          detail_scroll, compare_search_query, panicked>>
      [] IsChar(key, "d") ->
           /\ IF current_tab = "Compare"
              THEN remove_from_comparison
              ELSE UNCHANGED <<compared_crates, selected_index, panicked>>
           /\ NoCall
           /\ UNCHANGED <<current_tab, crates, repos, search_query, loading_state,
                          show_detail, input_mode, detail_scroll,
                          compare_search_query, compare_input_mode>>
      [] OTHER ->
           /\ NoCall
           /\ UNCHANGED <<current_tab, crates, repos, search_query,
                          selected_index, loading_state, show_detail, input_mode,
                          detail_scroll, compared_crates, compare_search_query,
                          compare_input_mode, panicked>>

\* the quit checks with 'q' quitting in the input modes too
IsQuit_InAnyMode(key) ==
    \/ IsChar(key, "q")
    \/ IsChar(key, "c") /\ key.ctrl

\* the two quit checks at the head of handle_key_event
IsQuit(key) ==
    \/ IsChar(key, "q") /\ ~input_mode /\ ~compare_input_mode
    \/ IsChar(key, "c") /\ key.ctrl

\* handle_key_event without the early return of the detail view
handle_key_event_NoDetailReturn(key, E) ==
    IF IsQuit(key)
    THEN /\ running' = FALSE
         /\ NoCall
         /\ UNCHANGED <<current_tab, crates, repos, search_query, selected_index,
                        loading_state, show_detail, input_mode, detail_scroll,
                        compared_crates, compare_search_query,
                        compare_input_mode, panicked>>
    ELSE /\ running' = running
         /\ IF input_mode THEN handle_input_mode(key, E)
            ELSE IF compare_input_mode THEN handle_compare_input_mode(key, E)
            ELSE handle_normal_mode(key, E)

\* App::handle_key_event: all of App
handle_key_event(key, E) ==
    IF IsQuit(key)
    THEN /\ running' = FALSE
         /\ NoCall
         /\ UNCHANGED <<current_tab, crates, repos, search_query, selected_index,
                        loading_state, show_detail, input_mode, detail_scroll,
                        compared_crates, compare_search_query,
                        compare_input_mode, panicked>>
    ELSE /\ running' = running
         /\ IF show_detail THEN handle_detail_mode(key)
            ELSE IF input_mode THEN handle_input_mode(key, E)
            ELSE IF compare_input_mode THEN handle_compare_input_mode(key, E)
            ELSE handle_normal_mode(key, E)

\* tick that also retries after an error
tick_RetriesError(E) ==
    /\ IF loading_state \in {"Loading", "Error"}
       THEN CASE current_tab = "Recent" ->
                   load_recent_crates(E) /\ UNCHANGED <<repos, panicked>>
              [] current_tab = "Trending" ->
                   load_trending_repos(E) /\ UNCHANGED crates
              [] current_tab = "Search" ->
                   search_crates(E) /\ UNCHANGED <<repos, panicked>>
              [] OTHER ->
                   UNCHANGED <<crates, repos, loading_state, panicked>> /\ NoCall
       ELSE UNCHANGED <<crates, repos, loading_state, panicked>> /\ NoCall
    /\ UNCHANGED <<running, current_tab, search_query, selected_index,
                   show_detail, input_mode, detail_scroll, compared_crates,
                   compare_search_query, compare_input_mode>>

\* App::tick: all of App
tick(E) ==
    /\ IF loading_state = "Loading"
       THEN CASE current_tab = "Recent" ->
                   load_recent_crates(E) /\ UNCHANGED <<repos, panicked>>
              [] current_tab = "Trending" ->
                   load_trending_repos(E) /\ UNCHANGED crates
              [] current_tab = "Search" ->
                   search_crates(E) /\ UNCHANGED <<repos, panicked>>
              [] OTHER ->
                   UNCHANGED <<crates, repos, loading_state, panicked>> /\ NoCall
       ELSE UNCHANGED <<crates, repos, loading_state, panicked>> /\ NoCall
    /\ UNCHANGED <<running, current_tab, search_query, selected_index,
                   show_detail, input_mode, detail_scroll, compared_crates,
                   compare_search_query, compare_input_mode>>

\* ui::draw: the one place the renderer writes to App (draw_search_tab)
draw(E) ==
    /\ IF /\ ~show_detail
          /\ current_tab = "Search"
          /\ search_query = ""
          /\ crates = <<>>
          /\ loading_state = "NotLoading"
       THEN search_crates_silently("rust", E)
       ELSE UNCHANGED <<crates, loading_state>> /\ NoCall
    /\ UNCHANGED <<running, current_tab, repos, search_query, selected_index,
                   show_detail, input_mode, detail_scroll, compared_crates,
                   compare_search_query, compare_input_mode, panicked>>

\* ---------------------------------------------------------------- main
\* where main's loop goes after an event: `while app.running`, or the abort
AfterEvent ==
    pc' = IF panicked' THEN "aborted" ELSE IF running' THEN "draw" ELSE "exit"

\* the part of the unbounded state space that is explored
WithinBounds ==
    /\ Len(search_query) <= MaxBuf
    /\ Len(compare_search_query) <= MaxBuf
    /\ Len(compared_crates) <= MaxCompared
    /\ detail_scroll <= MaxScroll

\* setup_terminal has succeeded and EventHandler::new has spawned the producer
HostStarted ==
    /\ terminal = [raw |-> TRUE, alternate |-> TRUE, mouse |-> TRUE]
    /\ queue = <<>>
    /\ pending = <<>>
    /\ elapsed = 0
    /\ ppc = "poll"
    /\ receiver = TRUE

\* security_check is run only inside the App
CheckIdle ==
    /\ now = Today
    /\ subject = CrateA
    /\ warnings = <<>>
    /\ words = <<>>
    /\ distance = <<>>

\* App::new without its call of load_recent_crates
InitOf_NothingLoaded(E) ==
    /\ running = TRUE
    /\ current_tab = "Search"
    /\ crates = <<>>
    /\ repos = <<>>
    /\ search_query = ""
    /\ selected_index = 0
    /\ loading_state = "NotLoading"
    /\ show_detail = FALSE
    /\ input_mode = FALSE
    /\ detail_scroll = 0
    /\ compared_crates = <<>>
    /\ compare_search_query = ""
    /\ compare_input_mode = FALSE
    /\ E.recent # {}
    /\ pc = "draw"
    /\ panicked = FALSE
    /\ calls = <<>>
    /\ HostStarted
    /\ CheckIdle

\* App::new, called by main before the loop
InitOf(E) ==
    /\ running = TRUE
    /\ current_tab = "Search"
    /\ repos = <<>>
    /\ search_query = ""
    /\ selected_index = 0
    /\ show_detail = FALSE
    /\ input_mode = FALSE
    /\ detail_scroll = 0
    /\ compared_crates = <<>>
    /\ compare_search_query = ""
    /\ compare_input_mode = FALSE
    /\ \E r \in E.recent :
          /\ crates = r.val
          /\ loading_state = IF r.ok THEN "Loaded" ELSE "Error"
          /\ calls = <<Call("recent_crates", "", r)>>
    /\ pc = "draw"
    /\ panicked = FALSE
    /\ HostStarted
    /\ CheckIdle

\* terminal.draw(|f| ui::draw(f, &mut app))
Draw(E) ==
    /\ pc = "draw"
    /\ draw(E)
    /\ pc' = "event"
    /\ UNCHANGED hostvars
    /\ UNCHANGED checkvars

\* the keys the user presses in the mode the App is in
Pressed(E) ==
    IF input_mode \/ compare_input_mode THEN E.typing
    ELSE IF show_detail THEN E.detail
    ELSE E.normal

\* Event::Key(key_event) => app.handle_key_event(key_event)
KeyPress(E) ==
    /\ pc = "event"
    /\ \E key \in Pressed(E) : handle_key_event(key, E)
    /\ WithinBounds'
    /\ AfterEvent
    /\ UNCHANGED hostvars
    /\ UNCHANGED checkvars

\* Event::Tick => app.tick()
Tick(E) ==
    /\ pc = "event"
    /\ tick(E)
    /\ AfterEvent
    /\ UNCHANGED hostvars
    /\ UNCHANGED checkvars

\* Event::Mouse(_) => {} and Event::Resize(_, _) => {}
Ignored ==
    /\ pc = "event"
    /\ pc' = "draw"
    /\ NoCall
    /\ UNCHANGED <<running, current_tab, crates, repos, search_query,
                   selected_index, loading_state, show_detail, input_mode,
                   detail_scroll, compared_crates, compare_search_query,
                   compare_input_mode, panicked>>
    /\ UNCHANGED hostvars
    /\ UNCHANGED checkvars

\* ------------------------------------------- main with its event producer
\* the App fields, with the abort flag and the calls of the latest step
appvars == <<running, current_tab, crates, repos, search_query, selected_index,
             loading_state, show_detail, input_mode, detail_scroll,
             compared_crates, compare_search_query, compare_input_mode,
             panicked, calls>>

\* EventHandler::new(250): the tick interval in milliseconds
tick_rate == 250
\* how long a poll that finds input, and a read, may take, in milliseconds
Waits == {0, 100}

\* enum Event
TickEvent == <<"Tick">>
KeyEvent(key) == <<"Key", key>>
MouseEvent == <<"Mouse">>
ResizeEvent == <<"Resize">>

\* nothing is constructed: the App fields as App::new starts them, no
\* terminal mode set, no channel
NothingBuilt ==
    /\ running = TRUE
    /\ current_tab = "Search"
    /\ crates = <<>>
    /\ repos = <<>>
    /\ search_query = ""
    /\ selected_index = 0
    /\ loading_state = "NotLoading"
    /\ show_detail = FALSE
    /\ input_mode = FALSE
    /\ detail_scroll = 0
    /\ compared_crates = <<>>
    /\ compare_search_query = ""
    /\ compare_input_mode = FALSE
    /\ panicked = FALSE
    /\ calls = <<>>
    /\ terminal = [raw |-> FALSE, alternate |-> FALSE, mouse |-> FALSE]
    /\ queue = <<>>
    /\ pending = <<>>
    /\ elapsed = 0
    /\ ppc = "unspawned"
    /\ receiver = FALSE

\* main is entered
HostInit ==
    /\ NothingBuilt
    /\ pc = "enable_raw_mode"
    /\ CheckIdle

\* ------------------------------------------- security_check on its own
\* a record and an instant are given
CheckInit(subjects, clocks) ==
    /\ NothingBuilt
    /\ pc = "check"
    /\ now \in clocks
    /\ subject \in subjects
    /\ warnings = <<>>
    /\ words = <<>>
    /\ distance = <<>>

\* let warnings = security_check(&subject)
SecurityCheck ==
    /\ pc = "check"
    /\ warnings' = security_check(subject)
    /\ pc' = "checked"
    /\ UNCHANGED <<appvars, now, subject, words, distance>>
    /\ UNCHANGED hostvars

\* ---------------------------------------- levenshtein_distance on its own
\* three strings are given
DistanceInit(strings) ==
    /\ NothingBuilt
    /\ pc = "measure"
    /\ now = Today
    /\ subject = CrateA
    /\ warnings = <<>>
    /\ words \in strings \X strings \X strings
    /\ distance = <<>>

\* levenshtein_distance(a, b) for the pairs of the three strings a, b, c
Measure ==
    /\ pc = "measure"
    /\ distance' = [ab |-> levenshtein_distance(words[1], words[2]),
                    ba |-> levenshtein_distance(words[2], words[1]),
                    bc |-> levenshtein_distance(words[2], words[3]),
                    ac |-> levenshtein_distance(words[1], words[3]),
                    aa |-> levenshtein_distance(words[1], words[1])]
    /\ pc' = "measured"
    /\ UNCHANGED <<appvars, now, subject, warnings, words>>
    /\ UNCHANGED hostvars

\* main returns or unwinds: `events` is dropped with its Receiver
Leave(to) == pc' = to /\ receiver' = FALSE

\* setup_terminal: crossterm::terminal::enable_raw_mode()?
EnableRawMode ==
    /\ pc = "enable_raw_mode"
    /\ \E ok \in BOOLEAN :
          IF ok
          THEN /\ terminal' = [terminal EXCEPT !.raw = TRUE]
               /\ pc' = "enter_screen"
               /\ UNCHANGED receiver
          ELSE terminal' = terminal /\ Leave("failed")
    /\ UNCHANGED <<appvars, queue, pending, elapsed, ppc>>
    /\ UNCHANGED checkvars

\* setup_terminal: execute!(stdout, EnterAlternateScreen, EnableMouseCapture)?
\* done is the number of commands written before one fails
EnterScreen ==
    /\ pc = "enter_screen"
    /\ \E done \in 0..2 :
          /\ terminal' = [terminal EXCEPT !.alternate = done >= 1,
                                          !.mouse = done >= 2]
          /\ IF done = 2
             THEN pc' = "new_terminal" /\ UNCHANGED receiver
             ELSE Leave("failed")
    /\ UNCHANGED <<appvars, queue, pending, elapsed, ppc>>
    /\ UNCHANGED checkvars

\* setup_terminal: Terminal::new(backend)?
NewTerminal ==
    /\ pc = "new_terminal"
    /\ \E ok \in BOOLEAN :
          IF ok THEN pc' = "new_app" /\ UNCHANGED receiver
          ELSE Leave("failed")
    /\ UNCHANGED <<appvars, terminal, queue, pending, elapsed, ppc>>
    /\ UNCHANGED checkvars

\* let mut app = App::new()
NewApp(E) ==
    /\ pc = "new_app"
    /\ load_recent_crates(E)
    /\ pc' = "new_events"
    /\ UNCHANGED <<running, current_tab, repos, search_query, selected_index,
                   show_detail, input_mode, detail_scroll, compared_crates,
                   compare_search_query, compare_input_mode, panicked>>
    /\ UNCHANGED hostvars
    /\ UNCHANGED checkvars

\* EventHandler::new: the channel is made and the producer thread spawned
NewEventHandler ==
    /\ pc = "new_events"
    /\ pc' = "draw"
    /\ queue' = <<>>
    /\ receiver' = TRUE
    /\ ppc' = "poll"
    /\ elapsed' = 0
    /\ UNCHANGED <<appvars, terminal, pending>>
    /\ UNCHANGED checkvars

\* terminal.draw(..)? returns an error after the closure has run
DrawFails(E) ==
    /\ pc = "draw"
    /\ receiver
    /\ draw(E)
    /\ Leave("failed")
    /\ UNCHANGED <<terminal, queue, pending, elapsed, ppc>>
    /\ UNCHANGED checkvars

\* recv answering while a handler of main is still running
Recv_WhileDispatching ==
    /\ pc \in {"event", "dispatch"}
    /\ receiver
    /\ queue # <<>>
    /\ pending' = <<Head(queue)>>
    /\ queue' = Tail(queue)
    /\ pc' = "dispatch"
    /\ UNCHANGED <<appvars, terminal, elapsed, ppc, receiver>>
    /\ UNCHANGED checkvars

\* events.next(): recv takes the oldest event of the channel
Recv ==
    /\ pc = "event"
    /\ receiver
    /\ queue # <<>>
    /\ pending' = <<Head(queue)>>
    /\ queue' = Tail(queue)
    /\ pc' = "dispatch"
    /\ UNCHANGED <<appvars, terminal, elapsed, ppc, receiver>>
    /\ UNCHANGED checkvars

\* events.next()?: the channel is empty and its Sender is gone
RecvFails ==
    /\ pc = "event"
    /\ receiver
    /\ queue = <<>>
    /\ ppc = "stopped"
    /\ Leave("failed")
    /\ UNCHANGED <<appvars, terminal, queue, pending, elapsed, ppc>>
    /\ UNCHANGED checkvars

\* the arms of main's match on the event taken, run to their end
Dispatch(E) ==
    /\ pc = "dispatch"
    /\ CASE pending[1][1] = "Tick" -> tick(E)
         [] pending[1][1] = "Key" -> handle_key_event(pending[1][2], E)
         [] OTHER -> /\ NoCall
                     /\ UNCHANGED <<running, current_tab, crates, repos,
                                    search_query, selected_index,
                                    loading_state, show_detail, input_mode,
                                    detail_scroll, compared_crates,
                                    compare_search_query, compare_input_mode,
                                    panicked>>
    /\ pending' = <<>>
    /\ AfterEvent
    /\ receiver' = (receiver /\ ~panicked')
    /\ UNCHANGED <<terminal, queue, elapsed, ppc>>
    /\ UNCHANGED checkvars

\* restore_terminal: crossterm::terminal::disable_raw_mode()?
DisableRawMode ==
    /\ pc = "exit"
    /\ receiver
    /\ \E ok \in BOOLEAN :
          IF ok
          THEN /\ terminal' = [terminal EXCEPT !.raw = FALSE]
               /\ pc' = "leave_screen"
               /\ UNCHANGED receiver
          ELSE terminal' = terminal /\ Leave("failed")
    /\ UNCHANGED <<appvars, queue, pending, elapsed, ppc>>
    /\ UNCHANGED checkvars

\* restore_terminal: execute!(.., LeaveAlternateScreen, DisableMouseCapture)?
\* and main's Ok(())
LeaveScreen ==
    /\ pc = "leave_screen"
    /\ \E done \in 0..2 :
          /\ terminal' = [terminal EXCEPT
                              !.alternate = terminal.alternate /\ done < 1,
                              !.mouse = terminal.mouse /\ done < 2]
          /\ Leave(IF done = 2 THEN "done" ELSE "failed")
    /\ UNCHANGED <<appvars, queue, pending, elapsed, ppc>>
    /\ UNCHANGED checkvars

\* sender.send(event): the channel is unbounded, so the event is queued
\* whatever the receiving side is doing, unless the Receiver is gone; the
\* producer goes on to `next` after a send that succeeds
Send(event, next) ==
    IF receiver
    THEN /\ queue' = Append(queue, event)
         /\ Len(queue') <= MaxQueue
         /\ ppc' = next
    ELSE /\ queue' = queue
         /\ ppc' = "stopped"

\* the producer: event::poll(timeout).unwrap(), with
\* timeout = tick_rate.checked_sub(last_tick.elapsed()).unwrap_or(0)
Poll ==
    /\ ppc = "poll"
    /\ LET timeout == IF tick_rate >= elapsed THEN tick_rate - elapsed ELSE 0
       IN \/ \E w \in Waits :
                /\ w <= timeout
                /\ elapsed' = elapsed + w
                /\ ppc' = "read"
          \/ /\ elapsed' = elapsed + timeout
             /\ ppc' = "check"
          \/ /\ elapsed' = elapsed
             /\ ppc' = "stopped"
    /\ UNCHANGED <<appvars, pc, terminal, queue, pending, receiver>>
    /\ UNCHANGED checkvars

\* Read with the tick check moved into the branch of a poll that found no
\* input: after an event was read the loop goes straight back to poll
Read_SkipsCheck(E) ==
    /\ ppc = "read"
    /\ \E d \in Waits : elapsed' = elapsed + d
    /\ \/ \E event \in {KeyEvent(key) : key \in E.normal}
                       \cup {MouseEvent, ResizeEvent} : Send(event, "poll")
       \/ queue' = queue /\ ppc' = "poll"
       \/ queue' = queue /\ ppc' = "stopped"
    /\ UNCHANGED <<appvars, pc, terminal, pending, receiver>>
    /\ UNCHANGED checkvars

\* the producer: event::read().unwrap() and the send of what was read
Read(E) ==
    /\ ppc = "read"
    /\ \E d \in Waits : elapsed' = elapsed + d
    /\ \/ \E event \in {KeyEvent(key) : key \in E.normal}
                       \cup {MouseEvent, ResizeEvent} : Send(event, "check")
       \/ queue' = queue /\ ppc' = "check"
       \/ queue' = queue /\ ppc' = "stopped"
    /\ UNCHANGED <<appvars, pc, terminal, pending, receiver>>
    /\ UNCHANGED checkvars

\* the producer: if last_tick.elapsed() >= tick_rate, send Tick and restart
\* the interval
CheckTick ==
    /\ ppc = "check"
    /\ IF elapsed >= tick_rate
       THEN /\ Send(TickEvent, "poll")
            /\ elapsed' = IF receiver THEN 0 ELSE elapsed
       ELSE /\ ppc' = "poll"
            /\ UNCHANGED <<queue, elapsed>>
    /\ UNCHANGED <<appvars, pc, terminal, pending, receiver>>
    /\ UNCHANGED checkvars

\* -------------------------------------------------------- specifications

ScrollKeys == {Key("Down"), Key("Up"), Key("PageDown"), Key("PageUp"),
               Char("j"), Char("k")}
EditKeys == {Key("Enter"), Key("Esc"), Key("Backspace"), Ctrl("c")}

\* Navigation and comparison: every key in normal mode, every key but the
\* scroll keys in detail mode, one character typed into the buffers; lists
\* and details drawn from two records.
Env ==
    [normal |-> KeyEvents,
     detail |-> KeyEvents \ ScrollKeys,
     typing |-> (KeyEvents \ {Char(c) : c \in Chars}) \cup {Char("a")},
     search |-> search_crates_api({CrateA, CrateB}),
     recent |-> recent_crates_api({CrateA, CrateB}),
     trending |-> trending_repos_api,
     details |-> get_crate_details({CrateA, CrateB})]

Init == InitOf(Env)
Next == Draw(Env) \/ KeyPress(Env) \/ Tick(Env) \/ Ignored
Spec == Init /\ [][Next]_vars

\* Browsing and the detail view: every key in normal mode and in detail
\* mode, lists of one record.
EnvDetail ==
    [normal |-> KeyEvents,
     detail |-> KeyEvents,
     typing |-> EditKeys,
     search |-> search_crates_api({CrateA}),
     recent |-> recent_crates_api({CrateA}),
     trending |-> trending_repos_api,
     details |-> get_crate_details({CrateA})]

InitDetail == InitOf(EnvDetail)
NextDetail == Draw(EnvDetail) \/ KeyPress(EnvDetail) \/ Tick(EnvDetail) \/ Ignored
SpecDetail == InitDetail /\ [][NextDetail]_vars

\* The two text inputs: while a buffer is edited every key code, Ctrl+C and
\* the characters TypedChars; in normal mode the keys that lead to the
\* inputs; lists of one record.
TypedChars == {"q", "j", "k", "a", "d", "/", "1"}

EnvInput ==
    [normal |-> {Char("/"), Char("a"), Char("1"), Char("5"), Char("q"),
                 Ctrl("c"), Key("Enter"), Key("Esc")},
     detail |-> {Key("Esc")},
     typing |-> {Key(c) : c \in KeyCodes} \cup {Char(c) : c \in TypedChars}
                \cup {Ctrl("c")},
     search |-> search_crates_api({CrateA}),
     recent |-> recent_crates_api({CrateA}),
     trending |-> trending_repos_api,
     details |-> get_crate_details({CrateA})]

InitInput == InitOf(EnvInput)
NextInput == Draw(EnvInput) \/ KeyPress(EnvInput) \/ Tick(EnvInput) \/ Ignored
SpecInput == InitInput /\ [][NextInput]_vars

\* The modes: the keys that open, leave and switch in normal mode, every
\* key but the scroll keys in detail mode, and while a buffer is edited the
\* edit keys, the tab keys and the characters that switch tabs or quit in
\* normal mode; lists of one record.
EnvModes ==
    [normal |-> {Char("/"), Char("a"), Char("1"), Char("2"), Char("5"),
                 Char("q"), Key("Tab"), Key("Enter"), Key("Esc")},
     detail |-> KeyEvents \ ScrollKeys,
     typing |-> EditKeys \cup {Key("Tab"), Key("BackTab"), Char("1"),
                               Char("5"), Char("q")},
     search |-> search_crates_api({CrateA}),
     recent |-> recent_crates_api({CrateA}),
     trending |-> {Err},
     details |-> get_crate_details({CrateA})]

InitModes == InitOf(EnvModes)
NextModes == Draw(EnvModes) \/ KeyPress(EnvModes) \/ Tick(EnvModes) \/ Ignored
SpecModes == InitModes /\ [][NextModes]_vars

\* The two sources of the packages list: the keys of EnvModes, with a
\* search that answers with lists of one record and a recent() that answers
\* with lists of the other.
EnvLists == [EnvModes EXCEPT !.search = search_crates_api({CrateB})]

InitLists == InitOf(EnvLists)
NextLists == Draw(EnvLists) \/ KeyPress(EnvLists) \/ Tick(EnvLists) \/ Ignored
SpecLists == InitLists /\ [][NextLists]_vars

\* The comparison set: the keys and responses of Env, with a repository
\* search that never answers with a list.
EnvCompare == [Env EXCEPT !.trending = {Err, Unwrapped}]

InitCompare == InitOf(EnvCompare)
NextCompare ==
    Draw(EnvCompare) \/ KeyPress(EnvCompare) \/ Tick(EnvCompare) \/ Ignored
SpecCompare == InitCompare /\ [][NextCompare]_vars

\* The whole of main: terminal setup, the producer thread and the loop. The
\* user quits and switches to the Recent and Trending tabs; every call of
\* the terminal may fail.
EnvHost ==
    [normal |-> {Char("q"), Char("2"), Char("3")},
     detail |-> {},
     typing |-> {},
     search |-> {Ok(<<>>), Err},
     recent |-> {Ok(<<>>), Err},
     trending |-> {Ok(<<>>), Unwrapped},
     details |-> {Err}]

InitHost == HostInit
NextHost ==
    \/ EnableRawMode \/ EnterScreen \/ NewTerminal
    \/ NewApp(EnvHost) \/ NewEventHandler
    \/ Draw(EnvHost) \/ DrawFails(EnvHost)
    \/ Recv \/ RecvFails \/ Dispatch(EnvHost)
    \/ DisableRawMode \/ LeaveScreen
    \/ Poll \/ Read(EnvHost) \/ CheckTick
SpecHost == InitHost /\ [][NextHost]_vars

\* security_check over package records: the popular names and names near
\* them, licenses of every class, timestamps around the 30 days before
\* Today, the download counts around 10,000, links and versions of every
\* class.
CheckNames ==
    {popular_crates[i] : i \in 1..Len(popular_crates)}
    \cup {"toko", "serda", "tokio-rs", "xlog", "clog", "tokio-util", "my-rand",
          "regexp", "a", "zzzzzz"}
CheckLicenses ==
    {None, Some(""), Some(" "), Some("MIT"), Some("MIT OR Apache-2.0"),
     Some("GPL-3.0"), Some("LGPL-2.1"), Some("gpl-2.0 or lgpl-2.1"),
     Some("Proprietary")}
CheckTimestamps ==
    {"", "yesterday", "2026-10-04T00:00:00Z", "2026-10-04T00:00:01Z",
     "2026-10-04T02:00:00.5+02:00", "2015-04-01T20:41:44.488390+00:00",
     "2026-12-24T00:00:00Z", "2026-02-30T00:00:00Z", "2026-10-05T00:00:00Z"}
CheckDownloads == {0, 10000, 10001}
CheckLinks == {None, Some(" "), Some("https://example.org")}
CheckVersions == {"0.0.1", "0.0.12", "0.1.0", "1.0.0"}
\* the links and versions of the records that differ in nothing else
EveryLink == CheckLinks \cup {Some("")}
EveryVersion == CheckVersions \cup {"", "0.0", "0.0.", "10.0.1"}
\* every name with a few records, two names with every other field, one
\* name with every link and version, and the records named "rand-rs" with
\* 50,000 downloads that were created 29 days before Today
Subjects ==
    [name : CheckNames, downloads : {10001},
     created_at : {"", "2026-10-04T00:00:01Z"},
     documentation : {None, Some("https://example.org")},
     repository : {None, Some("https://example.org")},
     max_version : {"0.0.1", "1.0.0"},
     license : {None, Some("GPL-3.0")}]
    \cup
    [name : {"a", "toko"}, downloads : CheckDownloads,
     created_at : CheckTimestamps, documentation : CheckLinks,
     repository : CheckLinks, max_version : CheckVersions,
     license : CheckLicenses]
    \cup
    [name : {"a"}, downloads : {0}, created_at : {""},
     documentation : EveryLink, repository : EveryLink,
     max_version : EveryVersion, license : {None, Some("MIT")}]
    \cup
    [name : {"rand-rs"}, downloads : {50000},
     created_at : {"2026-10-05T00:00:00Z"},
     documentation : {None, Some("https://example.org")},
     repository : {None, Some("https://example.org")},
     max_version : {"0.0.1", "1.0.0"},
     license : {None, Some("MIT"), Some("GPL-3.0 OR Proprietary")}]

InitCheck == CheckInit(Subjects, {Today})
NextCheck == SecurityCheck
SpecCheck == InitCheck /\ [][NextCheck]_vars

\* levenshtein_distance over the words of at most MaxWord letters of a
\* two-letter alphabet and the names "serde", "serdee" and "abc".
Alphabet == {"a", "b"}
RECURSIVE WordsUpTo(_)
WordsUpTo(n) ==
    IF n = 0 THEN {""}
    ELSE WordsUpTo(n - 1)
         \cup {w \o c : w \in WordsUpTo(n - 1), c \in Alphabet}
DistanceWords == WordsUpTo(MaxWord) \cup {"serde", "serdee", "abc"}

InitDistance == DistanceInit(DistanceWords)
NextDistance == Measure
SpecDistance == InitDistance /\ [][NextDistance]_vars

\* ------------------------------------------------------------ properties
\* the steps of the host loop that hand `key` to handle_key_event
KeyStep(key, E) == pc = "event" /\ handle_key_event(key, E)
NormalMode == ~show_detail /\ ~input_mode /\ ~compare_input_mode

\* C1: in every reachable state the selection index is less than the length
\* of the list of the current tab, unless that list is empty.
C1_SelectionInBounds ==
    MaxOf(current_tab) = 0 \/ selected_index < MaxOf(current_tab)

\* the entry at index i (from 0) taken out, the others in their order
WithoutEntry(v, i) == SubSeq(v, 1, i) \o SubSeq(v, i + 2, Len(v))

\* C2: the remove key never aborts the program; on the Compare tab with a
\* non-empty comparison set it removes exactly the entry at the selection
\* index, which is in bounds, keeps the order of the others and leaves the
\* selection index below the new length, or at 0 when the set became empty;
\* on any other tab, or when the set is empty, it changes nothing.
C2_RemoveKey ==
    [][(NormalMode /\ KeyStep(Char("d"), Env)) =>
         /\ ~panicked'
         /\ IF current_tab = "Compare" /\ compared_crates # <<>>
            THEN /\ selected_index < Len(compared_crates)
                 /\ compared_crates' = WithoutEntry(compared_crates, selected_index)
                 /\ IF compared_crates' = <<>>
                    THEN selected_index' = 0
                    ELSE selected_index' < Len(compared_crates')
            ELSE UNCHANGED <<running, current_tab, crates, repos, search_query,
                             selected_index, loading_state, show_detail,
                             input_mode, detail_scroll, compared_crates,
                             compare_search_query, compare_input_mode>>]_vars

\* C3: no two entries of the comparison set have the same package name.
C3_UniqueNames ==
    \A i, j \in 1..Len(compared_crates) :
        i # j => compared_crates[i].details.name # compared_crates[j].details.name

\* C4: in every reachable state at most one of show_detail, input_mode and
\* compare_input_mode is true.
C4_ModesExclusive ==
    /\ ~(show_detail /\ input_mode)
    /\ ~(show_detail /\ compare_input_mode)
    /\ ~(input_mode /\ compare_input_mode)

C4_Witness ==
    /\ compare_input_mode /\ compare_search_query # ""
    /\ ~show_detail /\ ~input_mode
    /\ search_query # ""

\* C5: every tab switch, by Tab, Shift-Tab or a numeric key, leaves the
\* selection index at 0 and the detail view closed.
C5_TabSwitchResets ==
    [][(pc = "event" /\ current_tab' # current_tab) =>
         (selected_index' = 0 /\ ~show_detail')]_vars

\* the tab after and before t in the declaration order of enum Tab, wrapping
TabIndex(t) == CHOOSE i \in 1..Len(TabOrder) : TabOrder[i] = t
Successor(t) == TabOrder[(TabIndex(t) % Len(TabOrder)) + 1]
Predecessor(t) == TabOrder[((TabIndex(t) + Len(TabOrder) - 2) % Len(TabOrder)) + 1]

\* C6: the Tab key moves to the next tab in declaration order and Shift-Tab
\* to the previous one, wrapping; from the current tab five next_tab
\* transitions return to it, prev_tab from Search lands on Help, and
\* prev_tab undoes next_tab (and next_tab undoes prev_tab).
C6_TabCycle ==
    /\ [](/\ NextTabOf(NextTabOf(NextTabOf(NextTabOf(NextTabOf(current_tab)))))
             = current_tab
          /\ \A k \in 1..4 :
                LET walk[n \in 0..4] ==
                        IF n = 0 THEN current_tab ELSE NextTabOf(walk[n - 1])
                IN  walk[k] # current_tab
          /\ PrevTabOf(NextTabOf(current_tab)) = current_tab
          /\ NextTabOf(PrevTabOf(current_tab)) = current_tab
          /\ current_tab = "Search" => PrevTabOf(current_tab) = "Help")
    /\ [][/\ (NormalMode /\ KeyStep(Key("Tab"), EnvDetail)) =>
                current_tab' = Successor(current_tab)
          /\ (NormalMode /\ KeyStep(Key("BackTab"), EnvDetail)) =>
                current_tab' = Predecessor(current_tab)]_vars

C6_Witness ==
    current_tab = "Trending" /\ loading_state = "Loading" /\ ~panicked /\ pc = "draw"

\* C7 as stated: running is set to false only by 'q' or Ctrl+C received
\* outside any input mode; while an input mode is active no key event sets
\* running to false; once false, running stays false and no further event
\* is handled.
C7_QuitOnlyOutsideInput ==
    [][/\ (running /\ ~running') =>
             /\ ~input_mode /\ ~compare_input_mode
             /\ KeyStep(Char("q"), EnvInput) \/ KeyStep(Ctrl("c"), EnvInput)
       /\ (input_mode \/ compare_input_mode) => running' = running
       /\ ~running => UNCHANGED vars]_vars

\* C7, amended: running is set to false only by 'q' received outside any
\* input mode or by Ctrl+C received in any mode; while an input mode is
\* active no key event other than Ctrl+C sets running to false; once false,
\* running stays false and no further event is handled.
C7_Quit ==
    [][/\ (running /\ ~running') =>
             \/ ~input_mode /\ ~compare_input_mode /\ KeyStep(Char("q"), EnvInput)
             \/ KeyStep(Ctrl("c"), EnvInput)
       /\ ((input_mode \/ compare_input_mode) /\ running /\ ~running') =>
             ~\E key \in KeyEvents \ {Ctrl("c")} : KeyStep(key, EnvInput)
       /\ ~running => UNCHANGED vars]_vars

C7_Witness ==
    ~running /\ pc = "exit" /\ input_mode /\ search_query # ""

\* C8: in detail mode Escape and 'q' both leave detail mode: afterwards
\* show_detail is false, the machine is in normal navigation on the same
\* tab, and running is still true.
C8_LeaveDetail ==
    [][\A key \in {Key("Esc"), Char("q")} :
          (show_detail /\ KeyStep(key, Env)) =>
             /\ ~show_detail' /\ ~input_mode' /\ ~compare_input_mode'
             /\ current_tab' = current_tab
             /\ running']_vars

\* everything but the scroll offset (and the loop position) is unchanged
OnlyScroll ==
    UNCHANGED <<running, current_tab, crates, repos, search_query,
                selected_index, loading_state, show_detail, input_mode,
                compared_crates, compare_search_query, compare_input_mode,
                panicked>>

\* C9: Enter in normal mode opens detail mode at scroll 0; in detail mode
\* Down/j adds 1, Up/k subtracts 1, PageDown adds 10 and PageUp subtracts
\* 10, the subtractions stopping at 0; the offset is never negative; these
\* keys change nothing else.
C9_DetailScroll ==
    /\ [](detail_scroll >= 0)
    /\ [][/\ (NormalMode /\ KeyStep(Key("Enter"), EnvDetail)) =>
                (show_detail' /\ detail_scroll' = 0)
          /\ \A key \in {Key("Down"), Char("j")} :
                (show_detail /\ KeyStep(key, EnvDetail)) =>
                   (detail_scroll' = detail_scroll + 1 /\ OnlyScroll)
          /\ \A key \in {Key("Up"), Char("k")} :
                (show_detail /\ KeyStep(key, EnvDetail)) =>
                   /\ detail_scroll' = IF detail_scroll = 0 THEN 0 ELSE detail_scroll - 1
                   /\ OnlyScroll
          /\ (show_detail /\ KeyStep(Key("PageDown"), EnvDetail)) =>
                (detail_scroll' = detail_scroll + 10 /\ OnlyScroll)
          /\ (show_detail /\ KeyStep(Key("PageUp"), EnvDetail)) =>
                /\ detail_scroll' = IF detail_scroll < 10 THEN 0 ELSE detail_scroll - 10
                /\ OnlyScroll]_vars

C9_Witness ==
    show_detail /\ detail_scroll = 11 /\ pc = "draw"

\* s without its last element; s itself when it is empty
DropLast(s) == IF Len(s) = 0 THEN s ELSE SubSeq(s, 1, Len(s) - 1)

NothingCommitted ==
    /\ calls' = <<>>
    /\ UNCHANGED <<crates, repos, compared_crates, loading_state, current_tab,
                   selected_index>>

\* C11: Escape in primary input mode or comparison input mode leaves the
\* mode without committing: no data-source call is made and the packages
\* list, repositories list, comparison set, LoadingState, tab and selection
\* index are unchanged.
C11_EscapeLeaves ==
    [][/\ (input_mode /\ ~show_detail /\ KeyStep(Key("Esc"), EnvInput)) =>
             (~input_mode' /\ ~compare_input_mode' /\ NothingCommitted)
       /\ (compare_input_mode /\ ~input_mode /\ ~show_detail
              /\ KeyStep(Key("Esc"), EnvInput)) =>
             (~compare_input_mode' /\ ~input_mode' /\ NothingCommitted)]_vars

\* a comparison buffer left non-empty outside the mode: Enter clears it
C11_Witness ==
    /\ ~compare_input_mode /\ compare_search_query # ""
    /\ ~input_mode /\ search_query # ""
    /\ calls = <<>> /\ running /\ pc = "draw"

\* C12: Enter in primary input mode always leaves the mode; with a non-empty
\* search buffer exactly one search call is made, with the buffer content,
\* the selection index is 0 afterwards and LoadingState is Loaded (list
\* replaced) or Error (list kept); with an empty buffer no call is made and
\* the lists, LoadingState and the selection are unchanged.
C12_EnterSearches ==
    [][(input_mode /\ ~show_detail /\ KeyStep(Key("Enter"), Env)) =>
         /\ ~input_mode'
         /\ IF search_query # ""
            THEN /\ Len(calls') = 1
                 /\ Fn(calls'[1]) = "search_crates"
                 /\ Arg(calls'[1]) = search_query
                 /\ selected_index' = 0
                 /\ IF Res(calls'[1]).ok
                    THEN loading_state' = "Loaded" /\ crates' = Res(calls'[1]).val
                    ELSE loading_state' = "Error" /\ crates' = crates
                 /\ repos' = repos
            ELSE /\ calls' = <<>>
                 /\ UNCHANGED <<crates, repos, loading_state, selected_index>>]_vars

\* a search that failed over a list that was kept
C12_Witness ==
    /\ ~input_mode /\ current_tab = "Search"
    /\ Made("search_crates", search_query)
    /\ loading_state = "Error" /\ Len(crates) = 2 /\ selected_index = 0
    /\ pc = "draw"

\* C13: Enter in comparison input mode always leaves the mode; with a
\* non-empty buffer it calls get_details(buffer) once and then clears the
\* buffer: on success with a name not yet present exactly one entry, with
\* its security report, is appended at the end of the comparison set, on
\* success with a name already present the set is unchanged, and on fetch
\* failure the comparison set and LoadingState are unchanged and nothing is
\* surfaced; with an empty buffer no call is made.
C13_EnterAddsByName ==
    [][(compare_input_mode /\ ~input_mode /\ ~show_detail
           /\ KeyStep(Key("Enter"), Env)) =>
         /\ ~compare_input_mode'
         /\ UNCHANGED <<loading_state, crates, repos, selected_index, running,
                        panicked>>
         /\ IF compare_search_query # ""
            THEN /\ Len(calls') = 1
                 /\ Fn(calls'[1]) = "get_crate_details"
                 /\ Arg(calls'[1]) = compare_search_query
                 /\ compare_search_query' = ""
                 /\ LET r == Res(calls'[1]) IN
                    IF r.ok /\ ~InComparison(r.val.name)
                    THEN /\ Len(compared_crates') = Len(compared_crates) + 1
                         /\ SubSeq(compared_crates', 1, Len(compared_crates))
                               = compared_crates
                         /\ LET new == compared_crates'[Len(compared_crates')] IN
                            /\ new.details = r.val
                            /\ new.security.warnings = security_check(r.val)
                            /\ new.security.safe = (new.security.warnings = <<>>)
                    ELSE compared_crates' = compared_crates
            ELSE /\ calls' = <<>>
                 /\ UNCHANGED <<compared_crates, compare_search_query>>]_vars

\* a second entry appended by name, the buffer cleared
C13_Witness ==
    /\ ~compare_input_mode /\ compare_search_query = ""
    /\ current_tab = "Compare" /\ Len(compared_crates) = 2
    /\ Len(calls) = 1 /\ Fn(calls[1]) = "get_crate_details"
    /\ Res(calls[1]).ok /\ compared_crates[2].details = Res(calls[1]).val
    /\ compared_crates[2].security.warnings # <<>>
    /\ pc = "draw"

\* C14: the add key in normal mode is contextual: on Search or Recent with a
\* valid selection whose name is not yet in the comparison set it appends
\* exactly one entry at the end of the set whatever get_details answers (the
\* fetched details on success, the summary record already held on failure),
\* and makes no call when the name is already present; on Compare it only
\* opens comparison input mode; on Trending and Help it changes nothing. In
\* no case does it change LoadingState, the lists or the selection.
C14_AddKey ==
    [][(NormalMode /\ KeyStep(Char("a"), Env)) =>
         /\ UNCHANGED <<loading_state, crates, repos, selected_index>>
         /\ CASE current_tab \in {"Search", "Recent"} ->
                   /\ UNCHANGED <<running, current_tab, search_query,
                                  show_detail, input_mode, detail_scroll,
                                  compare_search_query, compare_input_mode,
                                  panicked>>
                   /\ IF selected_index < Len(crates)
                      THEN LET held == crates[selected_index + 1] IN
                           IF InComparison(held.name)
                           THEN calls' = <<>> /\ compared_crates' = compared_crates
                           ELSE /\ Len(calls') = 1
                                /\ Fn(calls'[1]) = "get_crate_details"
                                /\ Arg(calls'[1]) = held.name
                                /\ compared_crates' =
                                      Append(compared_crates,
                                             ComparedCrate(IF Res(calls'[1]).ok
                                                           THEN Res(calls'[1]).val
                                                           ELSE held))
                      ELSE calls' = <<>> /\ compared_crates' = compared_crates
              [] current_tab = "Compare" ->
                   /\ compare_input_mode'
                   /\ calls' = <<>>
                   /\ UNCHANGED <<running, current_tab, search_query,
                                  show_detail, input_mode, detail_scroll,
                                  compared_crates, compare_search_query,
                                  panicked>>
              [] OTHER ->
                   /\ calls' = <<>>
                   /\ UNCHANGED <<running, current_tab, search_query,
                                  show_detail, input_mode, detail_scroll,
                                  compared_crates, compare_search_query,
                                  compare_input_mode, panicked>>]_vars

\* an entry made from the held summary record after get_details failed
C14_Witness ==
    /\ NormalMode /\ current_tab \in {"Search", "Recent"}
    /\ Len(calls) = 1 /\ Fn(calls[1]) = "get_crate_details" /\ ~Res(calls[1]).ok
    /\ Len(compared_crates) = 2 /\ selected_index = 1 /\ Len(crates) = 2
    /\ compared_crates[2].details = crates[2]
    /\ compared_crates[1].details.name # crates[2].name
    /\ pc = "draw"

\* C15: switching to the Recent or Trending tab, by Tab/Shift-Tab followed
\* by ticks or by a numeric key, triggers a fetch of that tab's list only if
\* the list is empty: a tab whose list is already loaded is not refetched
\* when it is revisited, and a tab switch never clears a loaded list.
C15_FetchOnlyIfEmpty ==
    [][/\ (pc = "event" /\ current_tab' # current_tab
             /\ current_tab' = "Recent" /\ crates # <<>>) =>
             (calls' = <<>> /\ crates' = crates)
       /\ (pc = "event" /\ current_tab' # current_tab
             /\ current_tab' = "Trending" /\ repos # <<>>) =>
             (calls' = <<>> /\ repos' = repos)
       /\ (current_tab = "Recent" /\ crates # <<>> /\ Tick(Env)) =>
             (calls' = <<>> /\ crates' = crates)
       /\ (current_tab = "Trending" /\ repos # <<>> /\ Tick(Env)) =>
             (calls' = <<>> /\ repos' = repos)]_vars

\* C16: whenever LoadingState is Loading, the next Tick re-invokes the fetch
\* for the active tab, so that after that Tick LoadingState is Loaded or
\* Error (Loading leads to not-Loading while ticks arrive). Stated for the
\* ticks that do not abort the process.
C16_TickResolvesLoading ==
    [][(loading_state = "Loading" /\ Tick(Env) /\ ~panicked') =>
         (Len(calls') = 1 /\ loading_state' \in {"Loaded", "Error"})]_vars

\* C17: a Tick received while LoadingState is NotLoading, Loaded or Error
\* makes no data-source call and leaves the whole App state unchanged; an
\* Error state is never retried by ticks, and LoadingState leaves Error only
\* on a tab switch (a step that changes the tab, or the numeric key of the
\* Recent or Trending tab pressed on that tab) or a new search.
C17_IdleTick ==
    [][/\ (loading_state # "Loading" /\ Tick(Env)) =>
             /\ calls' = <<>>
             /\ UNCHANGED <<running, current_tab, crates, repos, search_query,
                            selected_index, loading_state, show_detail,
                            input_mode, detail_scroll, compared_crates,
                            compare_search_query, compare_input_mode, panicked>>
       /\ (loading_state = "Error" /\ loading_state' # "Error") =>
             /\ ~Tick(Env)
             /\ \/ current_tab' # current_tab
                \/ Len(calls') = 1 /\ Fn(calls'[1]) = "search_crates"
                \/ NormalMode /\ KeyStep(Char("2"), Env)
                \/ NormalMode /\ KeyStep(Char("3"), Env)]_vars

\* an error shown on the Recent tab, where a retry would fetch
C17_Witness ==
    /\ loading_state = "Error" /\ current_tab = "Recent" /\ crates # <<>>
    /\ calls = <<>> /\ pc = "draw"

\* the three list fetches of api.rs
ListFetches == {"search_crates", "recent_crates", "trending_repos"}

\* C18: for every list fetch (search, recent, trending) started by the state
\* machine, a network failure or a response body that does not match the
\* expected shape ends in LoadingState = Error with the list held before
\* kept and running still true; no such failure aborts the process.
C18_FetchFailureIsError ==
    [][(Len(calls') = 1 /\ Fn(calls'[1]) \in ListFetches
           /\ ~Res(calls'[1]).ok) =>
         /\ loading_state' = "Error"
         /\ UNCHANGED <<crates, repos>>
         /\ running'
         /\ ~panicked']_vars

\* the App as App::new returns it
Constructed ==
    /\ current_tab = "Search"
    /\ ~show_detail /\ ~input_mode /\ ~compare_input_mode
    /\ selected_index = 0
    /\ running = TRUE
    /\ search_query = "" /\ compare_search_query = ""
    /\ compared_crates = <<>>
    /\ repos = <<>>
    /\ Len(calls) = 1 /\ Fn(calls[1]) = "recent_crates"
    /\ IF Res(calls[1]).ok
       THEN loading_state = "Loaded" /\ crates = Res(calls[1]).val
       ELSE loading_state = "Error" /\ crates = <<>>

\* C19: after construction and before the first render the App is on the
\* Search tab in normal mode (all three mode flags false) with selection 0,
\* running true, empty buffers and an empty comparison set, and exactly one
\* fetch of the default list has run to completion, leaving LoadingState
\* Loaded (the list holding what was answered) or Error (the list empty);
\* what follows construction is the first render.
C19_Constructed ==
    /\ Constructed /\ pc = "draw"
    /\ [][(Constructed /\ pc = "draw") => Draw(EnvDetail)]_vars

\* constructed with a failed fetch, or with a list of one record
C19_Witness ==
    /\ Constructed /\ pc = "draw"
    /\ loading_state = "Loaded" /\ Len(crates) = 1

\* C20: when the Search tab is shown with no search query and an empty
\* packages list (for example after the initial fetch failed), the renderer
\* triggers the default search so that popular packages get loaded; in
\* every other situation rendering leaves the App state unchanged.
C20_DefaultSearch ==
    [][Draw(EnvDetail) =>
         IF /\ ~show_detail /\ current_tab = "Search"
            /\ search_query = "" /\ crates = <<>>
         THEN /\ Len(calls') = 1
              /\ Fn(calls'[1]) = "search_crates"
              /\ loading_state' \in {"Loaded", "Error"}
         ELSE /\ calls' = <<>>
              /\ UNCHANGED <<running, current_tab, crates, repos, search_query,
                             selected_index, loading_state, show_detail,
                             input_mode, detail_scroll, compared_crates,
                             compare_search_query, compare_input_mode,
                             panicked>>]_vars

\* main has returned, or the main thread has unwound from a panic
Ended == pc \in {"done", "failed", "aborted"}

\* C21: whenever the process has ended, on any path, raw mode is off and
\* the alternate screen has been left.
C21_TerminalRestored ==
    Ended => ~terminal.raw /\ ~terminal.alternate

\* the steps of the producer thread
ProducerStep == ppc' # ppc /\ ppc # "unspawned"

\* C22: the producer comes back to its poll with less than a tick interval
\* gone since the last Tick, whether input was read or not; a poll gives up
\* only when the interval is over; its tick check then enqueues a Tick and
\* restarts the interval; a send is possible whatever the consumer is doing;
\* the channel only grows at its end and shrinks at its head, into the
\* consumer's hands; and once the receiver is dropped nothing is enqueued,
\* the next send ends the producer and an ended producer stays so.
C22_Producer ==
    /\ [](ppc = "poll" => elapsed < tick_rate)
    /\ [](/\ ppc = "check"
          /\ Len(queue) < MaxQueue
          => ENABLED CheckTick)
    /\ [][/\ ProducerStep /\ ppc = "poll" /\ ppc' = "check"
             => elapsed' >= tick_rate
          /\ ProducerStep /\ ppc = "check" /\ elapsed >= tick_rate /\ receiver
             => /\ queue' = Append(queue, TickEvent)
                /\ elapsed' = 0
                /\ ppc' = "poll"
          /\ queue' # queue
             => \/ /\ ProducerStep
                   /\ receiver
                   /\ Len(queue') = Len(queue) + 1
                   /\ SubSeq(queue', 1, Len(queue)) = queue
                \/ /\ pc = "event"
                   /\ queue' = Tail(queue)
                   /\ pending' = <<Head(queue)>>
          /\ ProducerStep /\ ~receiver
             => /\ queue' = queue
                /\ ppc = "check" /\ elapsed >= tick_rate => ppc' = "stopped"
          /\ ppc = "stopped" => ppc' = "stopped"]_vars

\* a key event and, behind it, a Tick wait in the channel while the consumer
\* is still busy with the event it took
C22_Witness ==
    /\ pc = "dispatch"
    /\ receiver
    /\ queue = <<KeyEvent(Char("3")), TickEvent>>

\* C23: at most one event is in the hands of main, and only while it is
\* dispatched; only steps of main change the App, never a step of the
\* producer; while a handler runs (its fetch included) the App and the
\* event taken stay as they are until the handler has ended, which leads to
\* the loop test and from there to the next render, the exit or the abort;
\* and an event is taken from the channel only when no handler is running.
C23_SingleMutator ==
    /\ [](Len(pending) <= 1 /\ (pending # <<>> <=> pc = "dispatch"))
    /\ [][/\ appvars' # appvars => pc' # pc /\ ppc' = ppc
          /\ pc = "dispatch" /\ pc' = pc
             => pending' = pending /\ appvars' = appvars
          /\ pc = "dispatch" /\ pc' # pc
             => /\ pending' = <<>>
                /\ pc' \in {"draw", "exit", "aborted"}
                /\ Len(calls') <= 1
                /\ queue' = queue
          /\ pending' # pending /\ pending' # <<>>
             => /\ pc = "event"
                /\ pending = <<>>
                /\ appvars' = appvars]_vars

\* a Tick has run the fetch of the Trending tab to its end, and meanwhile
\* the producer has filled the channel
C23_Witness ==
    /\ pc = "draw"
    /\ Len(calls) = 1
    /\ Fn(calls[1]) = "trending_repos"
    /\ Len(queue) >= 2

\* security_check has returned for the record
Checked == pc = "checked"

\* the warnings that speak of the license, in their order
IsLicenseWarning(w) ==
    \/ w \in {"No license specified", "Empty license specified",
              "GPL license may require derivative works to be open-sourced"}
    \/ starts_with(w, "Uncommon license: '")
LicenseRelated(ws) == SelectSeq(ws, IsLicenseWarning)
\* the license is absent, empty or all whitespace
BlankLicense(license) == license = None \/ trim_is_empty(license[1])

\* C24: for a record whose license is absent, empty or all whitespace the
\* only license-related warning is "No license specified".
C24_BlankLicense ==
    Checked /\ BlankLicense(subject.license)
    => LicenseRelated(warnings) = <<"No license specified">>

\* C24, amended: for such a record there is exactly one license-related
\* warning: "No license specified" when the license is absent, and "Empty
\* license specified" when it is present but empty or all whitespace.
C24_BlankLicenseAmended ==
    Checked /\ BlankLicense(subject.license)
    => LicenseRelated(warnings) =
          IF subject.license = None THEN <<"No license specified">>
          ELSE <<"Empty license specified">>

\* a record with a license of one space has been checked
C24_Witness ==
    /\ Checked
    /\ subject.license = Some(" ")
    /\ LicenseRelated(warnings) = <<"Empty license specified">>

\* the warning w is among ws
Has(ws, w) == \E i \in 1..Len(ws) : ws[i] = w
\* how often the warning w is among ws
Count(ws, w) == Cardinality({i \in 1..Len(ws) : ws[i] = w})
Copyleft == "GPL license may require derivative works to be open-sourced"

\* C25: for a record with a non-blank license the copyleft warning is given,
\* once, exactly when the lower-cased license contains "gpl" and does not
\* contain "lgpl", whatever the case of its letters and whether or not the
\* uncommon-license warning is given.
C25_Copyleft ==
    Checked /\ ~BlankLicense(subject.license)
    => /\ Has(warnings, Copyleft)
          <=> /\ contains(to_lowercase(subject.license[1]), "gpl")
              /\ ~contains(to_lowercase(subject.license[1]), "lgpl")
       /\ Count(warnings, Copyleft) <= 1
       /\ subject.license \in {Some("GPL-3.0")} => Has(warnings, Copyleft)
       /\ subject.license \in {Some("LGPL-2.1"), Some("gpl-2.0 or lgpl-2.1"),
                               Some("MIT"), Some("Proprietary")}
          => ~Has(warnings, Copyleft)

\* a record licensed "GPL-3.0", in upper case, has been given the warning
C25_Witness ==
    /\ Checked
    /\ subject.license = Some("GPL-3.0")
    /\ Has(warnings, Copyleft)

\* the uncommon-license warning for a license as it was given
Uncommon(license) == "Uncommon license: '" \o license \o "' - verify before use"
\* the warnings of ws that are an uncommon-license warning
IsUncommonWarning(w) == starts_with(w, "Uncommon license: '")
UncommonWarnings(ws) == SelectSeq(ws, IsUncommonWarning)

\* C26: for a record with a non-blank license the only uncommon-license
\* warning there can be quotes the license as given, and it is there
\* exactly when the lower-cased license contains none of the common-license
\* tokens; the uncommon-license and the copyleft warning never come together.
C26_Uncommon ==
    Checked /\ ~BlankLicense(subject.license)
    => /\ UncommonWarnings(warnings) =
             IF \A i \in 1..Len(common_licenses) :
                   ~contains(to_lowercase(subject.license[1]),
                             common_licenses[i])
             THEN <<Uncommon(subject.license[1])>>
             ELSE <<>>
       /\ ~(UncommonWarnings(warnings) # <<>> /\ Has(warnings, Copyleft))
       /\ subject.license = Some("Proprietary")
          => Has(warnings, "Uncommon license: 'Proprietary' - verify before use")
       /\ subject.license \in {Some("MIT"), Some("MIT OR Apache-2.0"),
                               Some("GPL-3.0"), Some("LGPL-2.1")}
          => UncommonWarnings(warnings) = <<>>

\* a record licensed "Proprietary" has been given the warning that quotes it
C26_Witness ==
    /\ Checked
    /\ subject.license = Some("Proprietary")
    /\ UncommonWarnings(warnings) = <<Uncommon("Proprietary")>>

Growth == "New crate with unusually high download count"
\* the timestamps of CheckTimestamps less than 30 whole days before Today
\* (2026-11-03T00:00:00Z): 29 days 23:59:59 before, 29 days 23:59:59.5
\* before, 29 days before, and one in the future
YoungAtToday ==
    {"2026-10-04T00:00:01Z", "2026-10-04T02:00:00.5+02:00",
     "2026-10-05T00:00:00Z", "2026-12-24T00:00:00Z"}
IsNotGrowth(w) == w # Growth

\* C27: the growth warning is given, once, exactly when created_at parses,
\* the age in whole days is less than 30 and the downloads are more than
\* 10,000 (not at 10,000, not at 30 days); a created_at that does not parse
\* gives no growth warning; and the other warnings are those of the same
\* record without a timestamp.
C27_Growth ==
    Checked /\ now = Today
    => /\ Has(warnings, Growth)
          <=> /\ rfc3339_is_ok(subject.created_at)
              /\ num_days(age_seconds(subject.created_at, now)) < 30
              /\ subject.downloads > 10000
       /\ Has(warnings, Growth)
          <=> /\ subject.created_at \in YoungAtToday
              /\ subject.downloads > 10000
       /\ Count(warnings, Growth) <= 1
       /\ subject.created_at \in {"", "yesterday", "2026-02-30T00:00:00Z"}
          => ~rfc3339_is_ok(subject.created_at) /\ ~Has(warnings, Growth)
       /\ SelectSeq(warnings, IsNotGrowth)
          = security_check([subject EXCEPT !.created_at = ""])

\* a record created 29 days, 23 hours, 59 minutes and 59 seconds ago with
\* 10,001 downloads has been given the warning
C27_Witness ==
    /\ Checked
    /\ subject.created_at = "2026-10-04T00:00:01Z"
    /\ subject.downloads = 10001
    /\ Has(warnings, Growth)

Suspicious(target) == "Name suspiciously similar to '" \o target \o "'"
Similar(target) == "Name similar to popular crate '" \o target \o "'"
IsSimilarityWarning(w) ==
    starts_with(w, "Name suspiciously similar to '")
    \/ starts_with(w, "Name similar to popular crate '")
\* the similarity warnings among ws
SimilarityWarnings(ws) == SelectSeq(ws, IsSimilarityWarning)

\* name starts or ends with target and is 1 to 3 characters longer
AffixMatch(name, target) ==
    /\ starts_with(name, target) \/ ends_with(name, target)
    /\ Len(name) - Len(target) \in 1..3
\* the lengths differ by at most 2 and the edit distance is at most 2
DistanceMatch(name, target) ==
    /\ Len(name) - Len(target) \in -2..2
    /\ levenshtein_distance(name, target) <= 2
\* the places in the list of the targets that match name
Matching(name) ==
    {k \in 1..Len(popular_crates) :
        /\ popular_crates[k] # name
        /\ AffixMatch(name, popular_crates[k])
           \/ DistanceMatch(name, popular_crates[k])}
First(places) == CHOOSE k \in places : \A other \in places : k <= other

\* C28: a record gets no similarity warning when no target other than its
\* own name matches, and otherwise exactly one, which names the first
\* matching target of the list: "suspiciously similar" when the name starts
\* or ends with it and is 1 to 3 characters longer, "similar to popular"
\* otherwise.
C28_FirstMatch ==
    Checked
    => /\ SimilarityWarnings(warnings) =
             IF Matching(subject.name) = {} THEN <<>>
             ELSE LET target == popular_crates[First(Matching(subject.name))]
                  IN IF AffixMatch(subject.name, target)
                     THEN <<Suspicious(target)>>
                     ELSE <<Similar(target)>>
       /\ subject.name = "tokio-rs" => Has(warnings, Suspicious("tokio"))
       /\ subject.name = "xlog" => Has(warnings, Suspicious("log"))
       /\ subject.name = "my-rand" => Has(warnings, Suspicious("rand"))
       /\ subject.name = "regexp" => Has(warnings, Suspicious("regex"))
       /\ subject.name = "serda" => Has(warnings, Similar("serde"))
       /\ subject.name = "clog" => Has(warnings, Similar("clap"))
       /\ subject.name \in {"tokio-util", "a", "zzzzzz"}
          => SimilarityWarnings(warnings) = <<>>

\* "clog" ends with the later target "log" and is within distance 2 of the
\* earlier target "clap": it has been given the one warning, naming "clap"
C28_Witness ==
    /\ Checked
    /\ subject.name = "clog"
    /\ Matching(subject.name) = {7, 10}
    /\ SimilarityWarnings(warnings) = <<Similar("clap")>>

\* the popular names
Popular == {popular_crates[k] : k \in 1..Len(popular_crates)}

\* C29: a record named as one of the popular names gets no similarity
\* warning, and a record named "toko" gets the one that names "tokio".
C29_PopularNames ==
    Checked
    => /\ subject.name \in Popular => SimilarityWarnings(warnings) = <<>>
       /\ subject.name = "tokio" => SimilarityWarnings(warnings) = <<>>
       /\ subject.name = "toko"
          => SimilarityWarnings(warnings)
             = <<"Name similar to popular crate 'tokio'">>

\* a record named "toko", one deletion away from "tokio", has been warned
C29_Witness ==
    /\ Checked
    /\ subject.name = "toko"
    /\ levenshtein_distance("toko", "tokio") = 1
    /\ Has(warnings, "Name similar to popular crate 'tokio'")

\* the link is absent, empty or all whitespace
MissingLink(link) == link \in {None, Some(""), Some(" ")}

\* C30: "No repository link" is given, once, exactly when the repository
\* link is absent, empty or all whitespace; "No documentation link" likewise
\* for the documentation link; "Very early version - may not be stable"
\* exactly when the version begins with "0.0."; each whatever the other two
\* and the other fields are.
C30_Metadata ==
    Checked
    => /\ Has(warnings, "No repository link")
          <=> MissingLink(subject.repository)
       /\ Has(warnings, "No documentation link")
          <=> MissingLink(subject.documentation)
       /\ Has(warnings, "Very early version - may not be stable")
          <=> subject.max_version \in {"0.0.1", "0.0.12", "0.0."}
       /\ Has(warnings, "Very early version - may not be stable")
          <=> /\ Len(subject.max_version) >= 4
              /\ SubSeq(subject.max_version, 1, 4) = "0.0."
       /\ Count(warnings, "No repository link") <= 1
       /\ Count(warnings, "No documentation link") <= 1
       /\ Count(warnings, "Very early version - may not be stable") <= 1

\* a record with a repository link of one space, a documentation link and
\* version 0.0.12 has been given the first and the third warning only
C30_Witness ==
    /\ Checked
    /\ subject.repository = Some(" ")
    /\ subject.documentation = Some("https://example.org")
    /\ subject.max_version = "0.0.12"
    /\ Has(warnings, "No repository link")
    /\ ~Has(warnings, "No documentation link")
    /\ Has(warnings, "Very early version - may not be stable")

\* the place in the order of the checks of the check that gives warning w
Rank(w) ==
    IF IsLicenseWarning(w) THEN 1
    ELSE IF w = Growth THEN 2
    ELSE IF IsSimilarityWarning(w) THEN 3
    ELSE IF w = "No repository link" THEN 4
    ELSE IF w = "No documentation link" THEN 5
    ELSE IF w = "Very early version - may not be stable" THEN 6
    ELSE 0
\* the places of the checks that the record triggers
Triggered(crate_data) ==
    {k \in 1..6 :
        CASE k = 1 ->
                 \/ BlankLicense(crate_data.license)
                 \/ LET lower == to_lowercase(crate_data.license[1])
                    IN \/ \A i \in 1..Len(common_licenses) :
                             ~contains(lower, common_licenses[i])
                       \/ contains(lower, "gpl") /\ ~contains(lower, "lgpl")
          [] k = 2 -> /\ crate_data.created_at \in YoungAtToday
                      /\ crate_data.downloads > 10000
          [] k = 3 -> Matching(crate_data.name) # {}
          [] k = 4 -> MissingLink(crate_data.repository)
          [] k = 5 -> MissingLink(crate_data.documentation)
          [] k = 6 -> /\ Len(crate_data.max_version) >= 4
                      /\ SubSeq(crate_data.max_version, 1, 4) = "0.0."}

\* C31: the warnings of a record come in the order of the checks (license,
\* growth, name similarity, repository link, documentation link, version),
\* and every check the record triggers has its warning among them whatever
\* the other checks give. The record named "rand-rs" without license,
\* repository and documentation, of version 0.0.1, with 50,000 downloads and
\* created 29 days ago is given the six warnings, in that order.
C31_CheckOrder ==
    Checked /\ now = Today
    => /\ \A i \in 1..Len(warnings) :
             /\ Rank(warnings[i]) \in 1..6
             /\ i < Len(warnings)
                => Rank(warnings[i]) <= Rank(warnings[i + 1])
       /\ {Rank(warnings[i]) : i \in 1..Len(warnings)} = Triggered(subject)
       /\ subject = [name |-> "rand-rs", downloads |-> 50000,
                     created_at |-> "2026-10-05T00:00:00Z",
                     documentation |-> None, repository |-> None,
                     max_version |-> "0.0.1", license |-> None]
          => /\ warnings = <<"No license specified",
                             "New crate with unusually high download count",
                             "Name suspiciously similar to 'rand'",
                             "No repository link",
                             "No documentation link",
                             "Very early version - may not be stable">>
             /\ ComparedCrate(subject).security.safe = FALSE

\* the record named "rand-rs" that triggers every check has been given six
\* warnings
C31_Witness ==
    /\ Checked
    /\ subject.name = "rand-rs"
    /\ Triggered(subject) = 1..6
    /\ Len(warnings) = 6

\* C32: in every entry of the comparison set the safe flag says that the
\* entry's warnings are empty (the record without license and links is not
\* safe, the record with them is), and every entry a step puts into the set
\* holds the warnings of security_check for the record kept in that entry;
\* the entries a step keeps are kept whole.
C32_SafeIsDerived ==
    /\ [](\A i \in 1..Len(compared_crates) :
            LET entry == compared_crates[i] IN
            /\ entry.security.safe = (entry.security.warnings = <<>>)
            /\ entry.security.safe = (Len(entry.security.warnings) = 0)
            /\ entry.details = CrateA => entry.security.safe = FALSE
            /\ entry.details = CrateB => entry.security.safe = TRUE)
    /\ [][\A i \in 1..Len(compared_crates') :
            LET entry == compared_crates'[i] IN
            \/ \E j \in 1..Len(compared_crates) : compared_crates[j] = entry
            \/ entry.security.warnings = security_check(entry.details)]_vars

\* the set holds an entry that is safe and one that is not
C32_Witness ==
    /\ Len(compared_crates) = 2
    /\ compared_crates[1].security.safe = TRUE
    /\ compared_crates[1].security.warnings = <<>>
    /\ compared_crates[2].security.safe = FALSE
    /\ compared_crates[2].security.warnings # <<>>

\* levenshtein_distance has returned for the three strings
Measured == pc = "measured"
\* the strings one insertion, deletion or substitution of a letter away
Edits(w) ==
    {SubSeq(w, 1, i - 1) \o SubSeq(w, i + 1, Len(w)) : i \in 1..Len(w)}
    \cup {SubSeq(w, 1, i) \o c \o SubSeq(w, i + 1, Len(w)) :
             i \in 0..Len(w), c \in Alphabet}
    \cup {SubSeq(w, 1, i - 1) \o c \o SubSeq(w, i + 1, Len(w)) :
             i \in 1..Len(w), c \in Alphabet}
\* the strings at most k such edits away from w
RECURSIVE Within(_, _)
Within(w, k) ==
    IF k = 0 THEN {w}
    ELSE LET nearer == Within(w, k - 1)
         IN nearer \cup UNION {Edits(v) : v \in nearer}
\* the Levenshtein distance: the least number of edits that turn a into b
RECURSIVE EditsFrom(_, _, _)
EditsFrom(a, b, k) == IF b \in Within(a, k) THEN k ELSE EditsFrom(a, b, k + 1)
Levenshtein(a, b) == EditsFrom(a, b, 0)

\* C33: levenshtein_distance(a, b) is the least number of single-letter
\* insertions, deletions and substitutions that turn a into b, for all words
\* of at most MaxWord letters; d(a, a) = 0, d(a, b) = d(b, a) and
\* d(a, c) <= d(a, b) + d(b, c); d("serde", "serde") = 0,
\* d("serde", "serdee") = 1 and d("", "abc") = 3.
C33_Levenshtein ==
    Measured
    => /\ words[3] = "" /\ {words[1], words[2]} \subseteq WordsUpTo(MaxWord)
          => distance.ab = Levenshtein(words[1], words[2])
       /\ distance.aa = 0
       /\ distance.ab = distance.ba
       /\ distance.ac <= distance.ab + distance.bc
       /\ distance.ab = 0 <=> words[1] = words[2]
       /\ words[1] = "serde" /\ words[2] = "serde" => distance.ab = 0
       /\ words[1] = "serde" /\ words[2] = "serdee" => distance.ab = 1
       /\ words[1] = "" /\ words[2] = "abc" => distance.ab = 3

\* "ab" and "ba" have been measured: two substitutions apart
C33_Witness ==
    /\ Measured
    /\ words = <<"ab", "ba", "">>
    /\ distance.ab = 2
    /\ Levenshtein("ab", "ba") = 2

\* prev_item's index for the index i of a list of max items
IndexBefore(i, max) ==
    IF max > 0 THEN (IF i > 0 THEN i - 1 ELSE max - 1) ELSE i

\* C34: in normal mode Down and j move the selection index of a non-empty
\* list by +1 modulo its length and Up and k by -1: the new index is below
\* the length, Down from the last item gives 0, Up from 0 gives the last
\* item, and Up after Down gives the index there was; on an empty list and
\* on the Help tab the keys change nothing.
C34_Navigation ==
    [][NormalMode =>
         LET max == MaxOf(current_tab) IN
         /\ \A key \in {Key("Down"), Char("j")} :
               KeyStep(key, Env) =>
                  IF max > 0
                  THEN /\ selected_index' \in 0..(max - 1)
                       /\ selected_index' = (selected_index + 1) % max
                       /\ selected_index = max - 1 => selected_index' = 0
                       /\ IndexBefore(selected_index', max) = selected_index
                  ELSE UNCHANGED appvars
         /\ \A key \in {Key("Up"), Char("k")} :
               KeyStep(key, Env) =>
                  IF max > 0
                  THEN /\ selected_index' \in 0..(max - 1)
                       /\ selected_index' = (selected_index + max - 1) % max
                       /\ selected_index = 0 => selected_index' = max - 1
                  ELSE UNCHANGED appvars]_vars

\* C35: a step sets the detail flag or an input flag only in normal mode;
\* while a mode is active no step changes the current tab; a step that
\* clears the flag of the active mode leaves the App in normal mode; primary
\* input mode is active only on the Search tab and comparison input mode
\* only on the Compare tab.
C35_ModesWithinTab ==
    /\ [](input_mode => current_tab = "Search")
    /\ [](compare_input_mode => current_tab = "Compare")
    /\ [][/\ (show_detail' /\ ~show_detail) => NormalMode
          /\ (input_mode' /\ ~input_mode) => NormalMode
          /\ (compare_input_mode' /\ ~compare_input_mode) => NormalMode
          /\ ~NormalMode => current_tab' = current_tab
          /\ (show_detail /\ ~show_detail') => NormalMode'
          /\ (input_mode /\ ~input_mode') => NormalMode'
          /\ (compare_input_mode /\ ~compare_input_mode') => NormalMode'
          /\ \A key \in KeyEvents :
                ~NormalMode /\ handle_key_event(key, EnvModes)
                => current_tab' = current_tab]_vars

\* the comparison input is open on the Compare tab with a character typed
C35_Witness ==
    /\ compare_input_mode
    /\ current_tab = "Compare"
    /\ compare_search_query # ""

\* C36: while the detail view of a package is open on the Search or Recent
\* tab, the key 'a' puts the package shown into the comparison set.
C36_AddFromDetail ==
    [][(/\ show_detail
        /\ current_tab \in {"Search", "Recent"}
        /\ selected_index < Len(crates)
        /\ KeyStep(Char("a"), EnvDetail))
       => \E i \in 1..Len(compared_crates') :
             compared_crates'[i].details.name
             = crates[selected_index + 1].name]_vars

\* C37: whenever the detail view is open the selection index is that of a
\* record of the list of the current tab; Enter on an empty list or on the
\* Help tab does not open the detail view.
C37_DetailHasRecord ==
    /\ [](show_detail => selected_index < MaxOf(current_tab))
    /\ [][(/\ NormalMode
           /\ MaxOf(current_tab) = 0
           /\ KeyStep(Key("Enter"), EnvDetail))
          => show_detail' = FALSE]_vars

\* C38: a step sends a query to the package search only as the renderer's
\* default search for "rust", as Enter in primary input mode, which commits
\* the buffer, or as a retry outside primary input mode; the text in the
\* buffer of an open primary input, which no Enter has committed, is not
\* sent.
C38_OnlyCommittedQueries ==
    [][\A i \in 1..Len(calls') :
          Fn(calls'[i]) = "search_crates"
          => \/ pc = "draw" /\ Arg(calls'[i]) = "rust"
             \/ /\ pc = "event"
                /\ input_mode /\ ~input_mode'
                /\ Arg(calls'[i]) = search_query
             \/ /\ pc = "event"
                /\ ~input_mode /\ ~input_mode'
                /\ Arg(calls'[i]) = search_query]_vars

\* every record of the list l is the record r
ListOf(l, r) == \A i \in 1..Len(l) : l[i] = r

\* C39: where recent() answers with lists of CrateA and the search with
\* lists of CrateB, the packages list of the Recent tab in LoadingState
\* Loaded is a list of CrateA, and a step that fetches the recent list does
\* not replace a list of search results kept for the query of the Search
\* tab.
C39_ListsKeptApart ==
    /\ [](current_tab = "Recent" /\ loading_state = "Loaded"
          => ListOf(crates, CrateA))
    /\ [][(/\ search_query # ""
           /\ crates # <<>>
           /\ ListOf(crates, CrateB)
           /\ \E i \in 1..Len(calls') : Fn(calls'[i]) = "recent_crates")
          => crates' = crates]_vars

\* C40: a step that opens primary input mode leaves the search buffer empty
\* and a step that opens comparison input mode leaves the comparison buffer
\* empty.
C40_BufferEmptyOnEntry ==
    [][/\ (input_mode' /\ ~input_mode) => search_query' = ""
       /\ (compare_input_mode' /\ ~compare_input_mode)
          => compare_search_query' = ""]_vars

====
